---------------------------- MODULE Spec2Model ----------------------------
(***************************************************************************)
(* A model of CRAWLGPT's content-processing core:                          *)
(*   utils/monitoring.py         Metrics, RateLimiter, MetricsCollector    *)
(*   utils/content_validator.py  ContentValidator                          *)
(*   core/DatabaseHandler.py     VectorDatabase (add_data, search)         *)
(*   core/LLMBasedCrawler.py     Model (chunk_text, extract_content_from_  *)
(*                               url, generate_response, import_state,     *)
(*                               clear)                                    *)
(*   crawlgpt/ui/app.py          the API: token_required, rate_limit,      *)
(*                               register and the handlers of a session    *)
(*   crawlgpt/core/database.py   the users table                           *)
(* Each component has its own specification over the shared variables:     *)
(* SpecRate, SpecMetrics, SpecDB and SpecChunk; SpecModel is one Model     *)
(* with its limiter, its metrics and its database; SpecApi is the API in   *)
(* front of the Model of one user's session, SpecSessions the same with    *)
(* two users, SpecBackup the same with /api/export; SpecLimit is the       *)
(* API's rate_limit alone and SpecUsers its registrations. SpecAdding and  *)
(* SpecRace follow add_data and can_proceed statement by statement, with   *)
(* other calls in between.                                                 *)
(***************************************************************************)
EXTENDS Integers, Sequences, FiniteSets, TLC

VARIABLES
    now,                  \* the wall clock, time.time(), in seconds
    requests_per_minute,  \* RateLimiter.requests_per_minute
    requests,             \* RateLimiter.requests, the deque of timestamps
    calls,                \* every can_proceed call so far: its time and result
    metrics,              \* MetricsCollector.metrics, a Metrics object
    snapshot,             \* the last dictionary Metrics.to_dict returned
    m_ret,                \* the last operation on the metrics
    m_hist,               \* what the metrics were given: the requests recorded
                          \* since construction, the object last serialized
    emb,                  \* the embedder: SentenceTransformer.encode per text
    index,                \* VectorDatabase.index, the vectors faiss holds
    data,                 \* VectorDatabase.data, the list of records
    db_ret,               \* the last VectorDatabase call: arguments and outcome
    text,                 \* chunk_text: the text argument
    chunk_size,           \* chunk_text: the chunk_size argument
    start,                \* chunk_text: the local start
    chunks,               \* chunk_text: the local chunks
    chunk_count,          \* chunk_text: the local chunk_count
    slices,               \* chunk_text: every window [start, end) cut so far
    pc,                   \* chunk_text: "entry" called, "loop" inside the while,
                          \* "done" returned, "raised" left by an exception
    context,              \* Model.context: the names of the pages it holds,
                          \* joined by newlines; <<>> is the empty string
    cache,                \* Model.cache: the keys of the defaultdict
    ret,                  \* the last call on the Model: what it did and returned
    hist,                 \* the calls on the Model so far, counted by kind
    user_sessions,        \* app.py: the session of each user who has one
    rate_limit_data,      \* app.py: the request timestamps kept for each user
    api_runs,             \* the times, in the last minute before a user's last
                          \* admitted request, at which rate_limit ran a handler
    chat_history,         \* database.py: the ChatHistory rows of each user
    users,                \* database.py: the rows of the users table
    adding,               \* the add_data call in progress: the records it has
                          \* still to append, and what a search returned
                          \* before it began
    callers,              \* each caller of can_proceed: where it stands in the
                          \* call, and the clock it read
    serving,              \* app.py: the user whose session's Model the
                          \* variables of the Model above hold
    parked,               \* app.py: the Models of the other users' sessions
    backup,               \* the data of the last /api/export answered, which
                          \* the client holds, and whether the session had
                          \* processed a URL: <<>> or <<data, flag>>
    api_ret               \* the last request to the API: what it was answered

vars == <<now, requests_per_minute, requests, calls, metrics, snapshot, m_ret,
          m_hist,
          emb, index, data, db_ret,
          text, chunk_size, start, chunks, chunk_count, slices, pc,
          context, cache, ret, hist,
          user_sessions, rate_limit_data, api_runs, chat_history, users,
          api_ret, adding, callers, serving, parked, backup>>

rateVars == <<requests_per_minute, requests, calls>>
metricVars == <<metrics, snapshot, m_ret, m_hist>>
dbVars == <<emb, index, data, db_ret>>
chunkVars == <<text, chunk_size, start, chunks, chunk_count, slices, pc>>
modelVars == <<context, cache, ret, hist>>
apiVars ==
    <<user_sessions, rate_limit_data, api_runs, chat_history, users, api_ret>>
sessVars == <<serving, parked>>
stepVars == <<adding, callers, sessVars, backup>>

-----------------------------------------------------------------------------
(* Bounds of the model. *)

\* The clock stops advancing here.
MaxNow == 125
\* The largest requests_per_minute a limiter is constructed with.
MaxRpm == 2
\* The number of can_proceed calls followed.
MaxCalls == 5
\* The number of record_request calls followed.
MaxRequests == 3
\* The largest response_time passed to record_request.
MaxResponseTime == 2
\* The largest tokens_used passed to record_request.
MaxTokens == 1
\* The clock value up to which to_dict and from_dict are followed.
MaxUptime == 3

\* The sliding window of the rate limiter, in seconds.
Window == 60

\* What the clock may have advanced by between two reads of time.time():
\* nothing, a second, and the window less a second, exactly, plus a second.
Deltas == {0, 1, Window - 1, Window, Window + 1}

Max(a, b) == IF a >= b THEN a ELSE b
Min(a, b) == IF a <= b THEN a ELSE b

RECURSIVE GCD(_, _)
GCD(a, b) == IF b = 0 THEN a ELSE GCD(b, a % b)

-----------------------------------------------------------------------------
(* utils/monitoring.py: RateLimiter *)

\* An eviction that also drops the timestamp exactly 60 seconds old
\* (<= for <).
RECURSIVE EvictInclusive(_, _)
EvictInclusive(q, t) ==
    IF q # <<>> /\ Head(q) <= t - Window THEN EvictInclusive(Tail(q), t) ELSE q

\* while self.requests and self.requests[0] < now - 60: popleft()
RECURSIVE Evict(_, _)
Evict(q, t) ==
    IF q # <<>> /\ Head(q) < t - Window THEN Evict(Tail(q), t) ELSE q

\* An admission test that lets one request too many through (<= for <).
AdmitOffByOne(q, rpm) == Len(q) <= rpm

\* if len(self.requests) < self.requests_per_minute
Admit(q, rpm) == Len(q) < rpm

\* A can_proceed that appends the timestamp of a denied call too.
can_proceed_appending(t) ==
    LET q == Evict(requests, t)
        ok == Admit(q, requests_per_minute)
    IN  /\ requests' = Append(q, t)
        /\ calls' = Append(calls, [t |-> t, ok |-> ok])

\* RateLimiter.can_proceed, reading the clock at t.
can_proceed(t) ==
    LET q == Evict(requests, t)
        ok == Admit(q, requests_per_minute)
    IN  /\ requests' = IF ok THEN Append(q, t) ELSE q
        /\ calls' = Append(calls, [t |-> t, ok |-> ok])

CanProceed ==
    /\ Len(calls) < MaxCalls
    /\ \E d \in Deltas :
          /\ now + d <= MaxNow
          /\ now' = now + d
          /\ can_proceed(now + d)
    /\ UNCHANGED <<requests_per_minute, metricVars, dbVars, chunkVars, modelVars,
                   apiVars, stepVars>>

\* The callers that share one limiter.
Callers == {"c1", "c2"}

\* What a step of can_proceed leaves alone.
NotTheLimiter ==
    UNCHANGED <<requests_per_minute, metricVars, dbVars, chunkVars, modelVars,
                apiVars, adding, sessVars, backup>>

\* can_proceed by caller c, step by step.  CallEnter: now = time.time().
CallEnter(c) ==
    /\ callers[c].pc = "idle"
    /\ Len(calls) + Cardinality({d \in Callers : callers[d].pc # "idle"}) < MaxCalls
    /\ \E d \in Deltas :
          /\ now + d <= MaxNow
          /\ now' = now + d
          /\ callers' = [callers EXCEPT ![c] = [pc |-> "evict", t |-> now + d]]
    /\ UNCHANGED <<requests, calls>>
    /\ NotTheLimiter

\* One test of the while condition, and the popleft when it holds.
CallEvict(c) ==
    /\ callers[c].pc = "evict"
    /\ IF requests # <<>> /\ Head(requests) < callers[c].t - Window
       THEN requests' = Tail(requests) /\ UNCHANGED callers
       ELSE callers' = [callers EXCEPT ![c].pc = "check"] /\ UNCHANGED requests
    /\ UNCHANGED <<now, calls>>
    /\ NotTheLimiter

\* if len(self.requests) < self.requests_per_minute; return False otherwise.
CallCheck(c) ==
    /\ callers[c].pc = "check"
    /\ IF Admit(requests, requests_per_minute)
       THEN callers' = [callers EXCEPT ![c].pc = "append"] /\ UNCHANGED calls
       ELSE /\ callers' = [callers EXCEPT ![c] = [pc |-> "idle"]]
            /\ calls' = Append(calls, [t |-> callers[c].t, ok |-> FALSE])
    /\ UNCHANGED <<now, requests>>
    /\ NotTheLimiter

\* self.requests.append(now); return True
CallAppend(c) ==
    /\ callers[c].pc = "append"
    /\ requests' = Append(requests, callers[c].t)
    /\ calls' = Append(calls, [t |-> callers[c].t, ok |-> TRUE])
    /\ callers' = [callers EXCEPT ![c] = [pc |-> "idle"]]
    /\ UNCHANGED now
    /\ NotTheLimiter



-----------------------------------------------------------------------------
(* utils/monitoring.py: Metrics, MetricsCollector *)

\* The value of an attribute the object does not have (hasattr is false):
\* Metrics.__init__ sets neither failed_requests nor total_tokens_used.
NoAttr == -1

\* average_response_time is a float; the model keeps it as an exact fraction.
Frac(n, d) == LET g == GCD(n, d) IN <<n \div g, d \div g>>

\* Metrics.__init__, run at clock t.
MetricsNew(total, successful, average, up, t) ==
    [total_requests |-> total,
     successful_requests |-> successful,
     average_response_time |-> average,
     uptime |-> up,
     start_time |-> t,
     failed_requests |-> NoAttr,
     total_tokens_used |-> NoAttr]

\* Metrics.to_dict, run at clock t.
to_dict(m, t) ==
    [total_requests |-> m.total_requests,
     successful_requests |-> m.successful_requests,
     average_response_time |-> m.average_response_time,
     uptime |-> m.uptime + (t - m.start_time)]

\* A restore that adds the snapshot's counters to the ones held.
from_dict_merging(d, t) ==
    MetricsNew(metrics.total_requests + d.total_requests,
               metrics.successful_requests + d.successful_requests,
               d.average_response_time, d.uptime, t)

\* A restore that starts the uptime again at zero.
from_dict_zero_uptime(d, t) ==
    MetricsNew(d.total_requests, d.successful_requests,
               d.average_response_time, 0, t)

\* Metrics.from_dict, run at clock t.
from_dict(d, t) ==
    MetricsNew(d.total_requests, d.successful_requests,
               d.average_response_time, d.uptime, t)

\* A running average that weighs the old average by the new count
\* (total_requests for total_requests - 1).
record_request_overweighted(m, success, response_time, tokens_used) ==
    LET n == m.total_requests + 1
        failed == IF m.failed_requests = NoAttr THEN 0 ELSE m.failed_requests
        tokens == IF m.total_tokens_used = NoAttr THEN 0 ELSE m.total_tokens_used
        avg == m.average_response_time
    IN  [m EXCEPT
           !.total_requests = n,
           !.successful_requests = IF success THEN @ + 1 ELSE @,
           !.failed_requests = IF success THEN @ ELSE failed + 1,
           !.average_response_time =
               Frac(avg[1] * n + response_time * avg[2], avg[2] * n),
           !.total_tokens_used = tokens + tokens_used]

\* MetricsCollector.record_request
record_request(m, success, response_time, tokens_used) ==
    LET n == m.total_requests + 1
        failed == IF m.failed_requests = NoAttr THEN 0 ELSE m.failed_requests
        tokens == IF m.total_tokens_used = NoAttr THEN 0 ELSE m.total_tokens_used
        avg == m.average_response_time
    IN  [m EXCEPT
           !.total_requests = n,
           !.successful_requests = IF success THEN @ + 1 ELSE @,
           !.failed_requests = IF success THEN @ ELSE failed + 1,
           !.average_response_time =
               Frac(avg[1] * (n - 1) + response_time * avg[2], avg[2] * n),
           !.total_tokens_used = tokens + tokens_used]

\* The requests a Metrics object constructed by MetricsCollector.__init__ has
\* been given since: how many, how many of them successful, the sum of their
\* response times and of their tokens.  A restored object (fresh is false)
\* has no such history.
MHistNew ==
    [fresh |-> TRUE, n |-> 0, ok_n |-> 0, rt_sum |-> 0, tokens_sum |-> 0,
     exported |-> <<>>]

\* The history after record_request(success, response_time, tokens_used).
Recorded(h, success, response_time, tokens_used) ==
    IF h.fresh
    THEN [h EXCEPT !.n = @ + 1,
                   !.ok_n = IF success THEN @ + 1 ELSE @,
                   !.rt_sum = @ + response_time,
                   !.tokens_sum = @ + tokens_used]
    ELSE h

\* The history after the object is replaced by Metrics.from_dict's.
Restored(h) ==
    [h EXCEPT !.fresh = FALSE, !.n = 0, !.ok_n = 0, !.rt_sum = 0,
              !.tokens_sum = 0]

\* The counters of the object to_dict is called on (its clock fields apart).
Exported(h, m) ==
    [h EXCEPT !.exported = <<[m EXCEPT !.uptime = 0, !.start_time = 0]>>]

RecordRequest ==
    /\ metrics.total_requests < MaxRequests
    /\ \E success \in BOOLEAN, rt \in 0..MaxResponseTime, tk \in 0..MaxTokens :
          /\ metrics' = record_request(metrics, success, rt, tk)
          /\ m_hist' = Recorded(m_hist, success, rt, tk)
          /\ m_ret' = "record_request"
    /\ UNCHANGED <<now, snapshot, rateVars, dbVars, chunkVars, modelVars,
                   apiVars, stepVars>>

\* Model.export_current_state: "metrics": self.metrics_collector.metrics.to_dict()
ExportMetrics ==
    /\ \E d \in Deltas :
          /\ now + d <= MaxUptime
          /\ now' = now + d
          /\ snapshot' = <<to_dict(metrics, now + d)>>
    /\ m_ret' = "to_dict"
    /\ m_hist' = Exported(m_hist, metrics)
    /\ UNCHANGED <<metrics, rateVars, dbVars, chunkVars, modelVars,
                   apiVars, stepVars>>

\* Model.import_state: self.metrics_collector.metrics = Metrics.from_dict(state["metrics"])
ImportMetrics ==
    /\ snapshot # <<>>
    /\ \E d \in Deltas :
          /\ now + d <= MaxUptime
          /\ now' = now + d
          /\ metrics' = from_dict(snapshot[1], now + d)
    /\ m_ret' = "from_dict"
    /\ m_hist' = Restored(m_hist)
    /\ UNCHANGED <<snapshot, rateVars, dbVars, chunkVars, modelVars,
                   apiVars, stepVars>>

-----------------------------------------------------------------------------
(* core/DatabaseHandler.py: VectorDatabase *)

\* The number of vectors and of records followed.
MaxRecords == 3
\* The longest texts or summaries list passed to add_data.
MaxBatch == 2
\* The largest top_k passed to search.
MaxTopK == 3
\* Embeddings are followed in one coordinate, 0..MaxCoord.
MaxCoord == 1

Texts == {"x", "y"}
Vecs == 0..MaxCoord

\* The summaries lists passed to add_data: <<>>, <<s1>>, <<s1, s2>>, ...
SummaryLists == {[k \in 1..n |-> <<"s", k>>] : n \in 0..MaxBatch}

SeqsUpTo(S, n) == UNION {[1..k -> S] : k \in 0..n}

\* faiss.IndexFlatL2: the squared Euclidean distance.
L2sq(a, b) == (a - b) * (a - b)

\* (d1, i1) before (d2, i2): nearer, or as near and stored earlier.
Nearer(d1, i1, d2, i2) == d1 < d2 \/ (d1 = d2 /\ i1 < i2)

\* The nearest vector of idx to q among the labels (0-based) of rest.
Nearest(idx, q, rest) ==
    CHOOSE i \in rest : \A j \in rest \ {i} :
        Nearer(L2sq(idx[i + 1], q), i, L2sq(idx[j + 1], q), j)

\* self.index.search(query_embedding, top_k), its labels: the k nearest
\* vectors by increasing distance, as the result heap of faiss's flat index
\* orders them (by distance, then by label), and -1 for each result there is
\* no vector for. faiss is not part of the repository: this is the library's
\* behaviour, which VectorDatabase.search relies on.
RECURSIVE FaissLabels(_, _, _, _)
FaissLabels(idx, q, k, taken) ==
    IF k = 0 THEN <<>>
    ELSE LET rest == (0..(Len(idx) - 1)) \ taken
         IN  IF rest = {}
             THEN <<-1>> \o FaissLabels(idx, q, k - 1, taken)
             ELSE LET b == Nearest(idx, q, rest)
                  IN  <<b>> \o FaissLabels(idx, q, k - 1, taken \cup {b})

\* Python's lst[i] is defined for -len(lst) <= i < len(lst).
PyInRange(lst, i) == -Len(lst) <= i /\ i < Len(lst)
PyGet(lst, i) == IF i >= 0 THEN lst[i + 1] ELSE lst[Len(lst) + i + 1]

\* A filter that drops the label -1 of a missing result as well.
KeepsLabelInRange(i, lst) == 0 <= i /\ i < Len(lst)

\* A filter that also drops the label of the last record.
KeepsLabelOffByOne(i, lst) == i < Len(lst) - 1

\* if i < len(self.data)
KeepsLabel(i, lst) == i < Len(lst)

\* [self.data[i] for i in indices[0] if i < len(self.data)]: the labels the
\* filter keeps, in order.
RECURSIVE KeptLabels(_, _)
KeptLabels(labels, lst) ==
    IF labels = <<>> THEN <<>>
    ELSE (IF KeepsLabel(Head(labels), lst) THEN <<Head(labels)>> ELSE <<>>)
         \o KeptLabels(Tail(labels), lst)

\* VectorDatabase.search: the result, or IndexError raised by self.data[i].
search(query, top_k) ==
    LET labels == FaissLabels(index, emb[query], top_k, {})
        kept == KeptLabels(labels, data)
        raised == \E n \in 1..Len(kept) : ~PyInRange(data, kept[n])
    IN  [op |-> "search", query |-> query, top_k |-> top_k, labels |-> labels,
         raised |-> raised,
         results |-> IF raised THEN <<>>
                     ELSE [n \in 1..Len(kept) |-> PyGet(data, kept[n])]]

Search ==
    /\ \E query \in Texts, top_k \in 1..MaxTopK : db_ret' = search(query, top_k)
    /\ UNCHANGED <<now, emb, index, data, rateVars, metricVars, chunkVars, modelVars,
                   apiVars, stepVars>>

\* zip(texts, summaries)
Zip(texts, summaries) ==
    [n \in 1..Min(Len(texts), Len(summaries)) |->
        [text |-> texts[n], summary |-> summaries[n]]]

\* An add_data that puts the new vectors and records in front of the old.
add_data_prepending(texts, summaries) ==
    /\ index' = [n \in 1..Len(texts) |-> emb[texts[n]]] \o index
    /\ data' = Zip(texts, summaries) \o data
    /\ db_ret' = [op |-> "add_data", n_texts |-> Len(texts),
                  n_summaries |-> Len(summaries), raised |-> FALSE]

\* VectorDatabase.add_data
add_data(texts, summaries) ==
    /\ index' = index \o [n \in 1..Len(texts) |-> emb[texts[n]]]
    /\ data' = data \o Zip(texts, summaries)
    /\ db_ret' = [op |-> "add_data", n_texts |-> Len(texts),
                  n_summaries |-> Len(summaries), raised |-> FALSE]

\* An add_data that appends the records before it embeds the texts.
add_data_raising_partial(texts, summaries) ==
    /\ index' = index
    /\ data' = data \o Zip(texts, summaries)
    /\ db_ret' = [op |-> "add_data", n_texts |-> Len(texts),
                  n_summaries |-> Len(summaries), raised |-> TRUE]

\* VectorDatabase.add_data when self.model.encode(texts) raises (line 23):
\* nothing was added yet.
add_data_raising(texts, summaries) ==
    /\ UNCHANGED <<index, data>>
    /\ db_ret' = [op |-> "add_data", n_texts |-> Len(texts),
                  n_summaries |-> Len(summaries), raised |-> TRUE]

\* The texts list is not empty; the two lists may differ in length.
AddData ==
    /\ \E texts \in SeqsUpTo(Texts, MaxBatch) \ {<<>>},
          summaries \in SummaryLists :
          /\ Len(index) + Len(texts) <= MaxRecords
          /\ add_data(texts, summaries)
    /\ UNCHANGED <<now, emb, rateVars, metricVars, chunkVars, modelVars,
                   apiVars, stepVars>>

\* add_data step by step, as a search run between two of its statements sees
\* it.  AddBegin: embeddings = self.model.encode(texts) and
\* self.index.add(...): the vectors are in the index, no record is appended
\* yet.  What every search returns at this moment, the add not yet begun, is
\* kept for comparison, as are the sizes of the index and of the record list.
AddBegin ==
    /\ adding.pc = "idle"
    /\ \E texts \in SeqsUpTo(Texts, MaxBatch) \ {<<>>},
          summaries \in SummaryLists :
          /\ Len(index) + Len(texts) <= MaxRecords
          /\ index' = index \o [n \in 1..Len(texts) |-> emb[texts[n]]]
          /\ adding' = [pc |-> "append", rest |-> Zip(texts, summaries),
                        vectors |-> Len(index), committed |-> Len(data),
                        before |-> [q \in Texts |-> [k \in 1..MaxTopK |->
                                      Len(search(q, k).results)]]]
          /\ db_ret' = [op |-> "add_begin", n_texts |-> Len(texts),
                        n_summaries |-> Len(summaries)]
    /\ UNCHANGED <<now, emb, data, rateVars, metricVars, chunkVars, modelVars,
                   apiVars, callers, sessVars, backup>>

\* One turn of the loop: self.data.append({"text": text, "summary": summary})
AddAppend ==
    /\ adding.pc = "append"
    /\ adding.rest # <<>>
    /\ data' = Append(data, Head(adding.rest))
    /\ adding' = [adding EXCEPT !.rest = Tail(@)]
    /\ UNCHANGED <<now, emb, index, db_ret, rateVars, metricVars, chunkVars,
                   modelVars, apiVars, callers, sessVars, backup>>

\* The loop is exhausted and add_data returns.
AddReturn ==
    /\ adding.pc = "append"
    /\ adding.rest = <<>>
    /\ adding' = [pc |-> "idle"]
    /\ db_ret' = [op |-> "add_data", n_texts |-> Len(index) - adding.vectors,
                  n_summaries |-> Len(data) - adding.committed, raised |-> FALSE]
    /\ UNCHANGED <<now, emb, index, data, rateVars, metricVars, chunkVars,
                   modelVars, apiVars, callers, sessVars, backup>>

\* VectorDatabase.to_dict: every stored record with its vector.
db_to_dict(idx, dat) ==
    [n \in 1..Len(dat) |->
        [text |-> dat[n].text, summary |-> dat[n].summary, embedding |-> idx[n]]]

\* VectorDatabase.from_dict: the vectors and the records of the snapshot
\* replace the ones held; the embedder is not called.
db_from_dict(records) ==
    /\ index' = [n \in 1..Len(records) |-> records[n].embedding]
    /\ data' = [n \in 1..Len(records) |->
                  [text |-> records[n].text, summary |-> records[n].summary]]

\* database.from_dict(database.to_dict()): the database is written to a
\* snapshot and read back from it, as an export followed by an import does.
\* What every search returned before is kept for comparison.
RoundTrip ==
    /\ db_from_dict(db_to_dict(index, data))
    /\ db_ret' = [op |-> "round_trip", index |-> index, data |-> data,
                  before |-> [q \in Texts |-> [k \in 1..MaxTopK |-> search(q, k)]]]
    /\ UNCHANGED <<now, emb, rateVars, metricVars, chunkVars, modelVars,
                   apiVars, stepVars>>

-----------------------------------------------------------------------------
(* core/LLMBasedCrawler.py: Model.chunk_text *)

\* The longest text chunked.
MaxLen == 6
\* The largest chunk_size.
MaxChunk == 5

\* A text is a sequence of characters: a space, a newline, a period and a
\* backquote, which is written "bq". A period not followed by a space, or a
\* backquote outside a run of three, stands for any other character.
Chars == {" ", "\n", ".", "bq"}
Whitespace == {" ", "\n"}

Fence == <<"bq", "bq", "bq">>
BlankLine == <<"\n", "\n">>
SentenceEnd == <<".", " ">>

\* text[i:j] for 0 <= i <= j <= len(text)
Slice(s, i, j) == SubSeq(s, i + 1, j)

\* str.rfind: the highest 0-based offset at which sub occurs in s, or -1.
rfind(s, sub) ==
    LET at == {i \in 0..(Len(s) - Len(sub)) : Slice(s, i, i + Len(sub)) = sub}
    IN  IF at = {} THEN -1 ELSE CHOOSE i \in at : \A j \in at : j <= i

\* sub in s
Contains(s, sub) == rfind(s, sub) # -1

\* str.strip: what lies between the first and the last character that is
\* not whitespace.
Inked(s) == {i \in 1..Len(s) : s[i] \notin Whitespace}
lstrip(s) ==
    IF Inked(s) = {} THEN <<>>
    ELSE SubSeq(s, CHOOSE i \in Inked(s) : \A j \in Inked(s) : i <= j, Len(s))
rstrip(s) ==
    IF Inked(s) = {} THEN <<>>
    ELSE SubSeq(s, 1, CHOOSE i \in Inked(s) : \A j \in Inked(s) : i >= j)
strip(s) == rstrip(lstrip(s))

\* pos > chunk_size * 0.3
PastThreshold(pos, size) == 10 * pos > 3 * size

\* Lines 106-118: the end of the window that starts at s, after the boundary
\* search in chunk = text[s:s + size].
CutEnd(chunk, s, size) ==
    LET code_block == rfind(chunk, Fence)
        last_break == rfind(chunk, BlankLine)
        last_period == rfind(chunk, SentenceEnd)
    IN  IF code_block # -1 /\ PastThreshold(code_block, size)
        THEN s + code_block
        ELSE IF Contains(chunk, BlankLine)
        THEN (IF PastThreshold(last_break, size) THEN s + last_break ELSE s + size)
        ELSE IF Contains(chunk, SentenceEnd)
        THEN (IF PastThreshold(last_period, size) THEN s + last_period + 1
              ELSE s + size)
        ELSE s + size

\* A next start that takes the smaller of the two (min for max), and one
\* that steps back a character from the cut to overlap the windows.
NextStartMin(s, end) == Min(s + 1, end)
NextStartOverlap(s, end) == end - 1

\* start = max(start + 1, end)
NextStart(s, end) == Max(s + 1, end)

\* Lines 86-94, before the loop: total_steps = len(text) // chunk_size + 1
\* raises ZeroDivisionError when chunk_size is 0; ProgressTracker itself
\* only stores what it is given.
ChunkEnter ==
    /\ pc = "entry"
    /\ pc' = IF chunk_size = 0 THEN "raised" ELSE "loop"
    /\ UNCHANGED <<text, chunk_size, start, chunks, chunk_count, slices>>
    /\ UNCHANGED <<now, rateVars, metricVars, dbVars, modelVars,
                   apiVars, stepVars>>

\* The while condition is false: the function returns chunks.
ChunkReturn ==
    /\ pc = "loop"
    /\ ~(start < Len(text))
    /\ pc' = "done"
    /\ UNCHANGED <<text, chunk_size, start, chunks, chunk_count, slices>>
    /\ UNCHANGED <<now, rateVars, metricVars, dbVars, modelVars,
                   apiVars, stepVars>>

\* An iteration with end >= text_length: the rest of the text, then break.
ChunkLast ==
    /\ pc = "loop"
    /\ start < Len(text)
    /\ start + chunk_size >= Len(text)
    /\ chunk_count' = chunk_count + 1
    /\ chunks' = Append(chunks, strip(Slice(text, start, Len(text))))
    /\ slices' = Append(slices, <<start, Len(text)>>)
    /\ pc' = "done"
    /\ UNCHANGED <<text, chunk_size, start>>
    /\ UNCHANGED <<now, rateVars, metricVars, dbVars, modelVars,
                   apiVars, stepVars>>

\* An iteration with end < text_length: cut at a boundary or at chunk_size.
ChunkCut ==
    /\ pc = "loop"
    /\ start < Len(text)
    /\ start + chunk_size < Len(text)
    /\ LET end == CutEnd(Slice(text, start, start + chunk_size), start, chunk_size)
           chunk == strip(Slice(text, start, end))
       IN  /\ chunk_count' = chunk_count + 1
           /\ chunks' = IF chunk # <<>> THEN Append(chunks, chunk) ELSE chunks
           /\ slices' = Append(slices, <<start, end>>)
           /\ start' = NextStart(start, end)
    /\ UNCHANGED <<text, chunk_size, pc>>
    /\ UNCHANGED <<now, rateVars, metricVars, dbVars, modelVars,
                   apiVars, stepVars>>

-----------------------------------------------------------------------------
(* utils/content_validator.py: ContentValidator *)

\* A URL as urlparse splits it: its scheme and its network location, each of
\* which may be empty.
Urls == [scheme : {"", "https"}, netloc : {"", "host"}]

\* return all([result.scheme, result.netloc])
is_valid_url(url) == url.scheme # "" /\ url.netloc # ""

\* One element of a document that stands for a script-tag marker, which
\* re.search(r"<script.*?>", content, re.I) finds.
ScriptTag == "<script>"

\* if len(content.strip()) < 10
MinContentLength == 10

\* A validate_content that measures the content with its padding.
validate_content_untrimmed(content) ==
    IF \E n \in 1..Len(content) : content[n] = ScriptTag
    THEN [valid |-> FALSE, reason |-> "Contains script tags"]
    ELSE IF Len(content) < MinContentLength
    THEN [valid |-> FALSE, reason |-> "Content too short"]
    ELSE [valid |-> TRUE, reason |-> "Content passed validation"]

\* ContentValidator.validate_content
validate_content(content) ==
    IF \E n \in 1..Len(content) : content[n] = ScriptTag
    THEN [valid |-> FALSE, reason |-> "Contains script tags"]
    ELSE IF Len(strip(content)) < MinContentLength
    THEN [valid |-> FALSE, reason |-> "Content too short"]
    ELSE [valid |-> TRUE, reason |-> "Content passed validation"]

-----------------------------------------------------------------------------
(* core/LLMBasedCrawler.py: Model *)

\* The number of calls on one Model followed.
MaxOps == 2

\* def chunk_text(self, text: str, chunk_size: int = 5000)
DefaultChunkSize == 5000

\* relevant_context = self.database.search(query, top_k=3)
TopK == 3

\* chunk_text as a function of its arguments, for chunk_size >= 1: the loop
\* of lines 96-124 from start s with the chunks acc.
RECURSIVE chunk_loop(_, _, _, _)
chunk_loop(txt, size, s, acc) ==
    IF ~(s < Len(txt)) THEN acc
    ELSE IF s + size >= Len(txt)
    THEN Append(acc, strip(Slice(txt, s, Len(txt))))
    ELSE LET end == CutEnd(Slice(txt, s, s + size), s, size)
             chunk == strip(Slice(txt, s, end))
         IN  chunk_loop(txt, size, NextStart(s, end),
                        IF chunk # <<>> THEN Append(acc, chunk) ELSE acc)

chunk_text(txt, size) == chunk_loop(txt, size, 0, <<>>)

Rep(c, n) == [k \in 1..n |-> c]

\* The pages the crawler may return as result.markdown: one too short once
\* trimmed, one long enough that is trimmed, one with a script tag that is
\* too short as well, and one longer than a chunk, a few characters followed by spaces up to the end of
\* the first window.
PaddedShortDoc == <<" ">> \o Rep(".", MinContentLength - 1) \o <<"\n">>
PaddedDoc == <<" ">> \o Rep(".", MinContentLength) \o <<"\n">>
ScriptDoc == <<ScriptTag, ".">>
LongDoc ==
    Rep(".", MinContentLength + 1)
        \o Rep(" ", DefaultChunkSize - MinContentLength - 1)
        \o Rep(".", MinContentLength)

\* A page is handed on by name; Markdown gives the characters of each.
Docs == {"short", "padded", "script", "long"}
Markdown ==
    [d \in Docs |->
        CASE d = "short" -> PaddedShortDoc
          [] d = "padded" -> PaddedDoc
          [] d = "script" -> ScriptDoc
          [] d = "long" -> LongDoc]

\* "\n".join(items)
RECURSIVE JoinLines(_)
JoinLines(items) ==
    IF items = <<>> THEN <<>>
    ELSE IF Len(items) = 1 THEN items[1]
    ELSE items[1] \o <<"\n">> \o JoinLines(Tail(items))

\* The characters of a context: its pages, joined by newlines.
ContextText(ctx) == JoinLines([n \in 1..Len(ctx) |-> Markdown[ctx[n]]])

\* crawler.arun raised instead of returning a page.
FetchError == "fetch error"
FetchResults == Docs \cup {FetchError}

\* chunks = self.chunk_text(self.context), for each page.
ChunksOf == [d \in Docs |-> chunk_text(Markdown[d], DefaultChunkSize)]

\* self.content_validator.validate_content(self.context), for each page.
ValidationOf == [d \in Docs |-> validate_content(Markdown[d])]

\* self.summarizer.generate_summary(chunk): the provider's summary of a chunk.
Summary(chunk) ==
    <<"summary of a", IF Len(chunk) > MinContentLength THEN "long" ELSE "short", "chunk">>

\* The queries put to generate_response.
Queries == {<<"q">>}

\* The texts the embedder of one Model is asked to encode.
ModelTexts ==
    Queries \cup UNION {{ChunksOf[p][n] : n \in 1..Len(ChunksOf[p])} : p \in Docs}

\* The time that passes between two calls on the Model, and during one.
Gaps == {0, Window}
Elapsed == {1}


\* The session as a call finds it, kept to compare with what it leaves.
Pre ==
    [context |-> context, cache |-> cache, index |-> index, data |-> data,
     metrics |-> metrics, requests |-> requests]

\* An order that asks the rate limiter before it validates the URL.
ExtractStepsRateFirst ==
    <<"can_proceed", "is_valid_url", "fetch", "validate_content",
      "summarize", "add_data">>

\* The steps of extract_content_from_url, in the order of lines 147-177.
ExtractSteps ==
    <<"is_valid_url", "can_proceed", "fetch", "validate_content",
      "summarize", "add_data">>

StepNo(step) == CHOOSE n \in 1..Len(ExtractSteps) : ExtractSteps[n] = step

\* The step of extract_content_from_url that raises, or "none": the URL is
\* not valid, the limiter denies, the crawler fails, the page is rejected,
\* the summarizer fails on chunk summ_fail, or the embedder fails.
ExtractFailure(url, admitted, page, summ_fail, embed_ok) ==
    IF ~is_valid_url(url) THEN "is_valid_url"
    ELSE IF ~admitted THEN "can_proceed"
    ELSE IF page = FetchError THEN "fetch"
    ELSE IF ~ValidationOf[page].valid THEN "validate_content"
    ELSE IF summ_fail \in 1..Len(ChunksOf[page]) THEN "summarize"
    ELSE IF ~embed_ok THEN "add_data"
    ELSE "none"

\* str(e) of the exception the failing step raises.
ExtractReason(failure, page) ==
    CASE failure = "is_valid_url" -> <<"Invalid URL format">>
      [] failure = "can_proceed" -> <<"Rate limit exceeded. Please try again later.">>
      [] failure = "fetch" -> <<FetchError>>
      [] failure = "validate_content" ->
            <<"Content validation failed: ", ValidationOf[page].reason>>
      [] failure = "summarize" -> <<"summarizer error">>
      [] failure = "add_data" -> <<"embedding error">>

\* The step was run: no earlier step raised.
Ran(failure, step) == failure = "none" \/ StepNo(step) <= StepNo(failure)

\* A handler whose try block ends with the fetch: what fails later escapes.
ExtractCatchesToFetch(failure) == failure \in {"is_valid_url", "can_proceed", "fetch"}

\* except Exception as e (line 184): every step of the try block is caught.
ExtractCatches(failure) == failure \in {ExtractSteps[n] : n \in 1..Len(ExtractSteps)}

\* self.context = result.markdown (line 165), run when the fetch returned.
ContextAfterFetch(failure, page) ==
    IF Ran(failure, "validate_content") THEN <<page>> ELSE context

\* A collaborator's outcome is an input of the call only if the call comes
\* to it: the outcome of a step that is not run is held at one value.
ExtractInputs(url, admitted, page, summ_fail, embed_ok) ==
    LET failure == ExtractFailure(url, admitted, page, summ_fail, embed_ok)
    IN  /\ ~Ran(failure, "fetch") => page = FetchError
        /\ ~Ran(failure, "summarize") => summ_fail = 0
        /\ ~Ran(failure, "add_data") => embed_ok

\* Model.extract_content_from_url, entered at clock t0 and left e later.
extract_content_from_url(url, page, summ_fail, embed_ok, t0, e) ==
    LET admitted == Admit(Evict(requests, t0), requests_per_minute)
        failure == ExtractFailure(url, admitted, page, summ_fail, embed_ok)
        ok == failure = "none"
        caught == ExtractCatches(failure)
        page_chunks == ChunksOf[page]
        summaries == [n \in 1..Len(page_chunks) |-> Summary(page_chunks[n])]
        new_context == ContextAfterFetch(failure, page)
    IN  /\ IF Ran(failure, "can_proceed")
           THEN can_proceed(t0) ELSE UNCHANGED <<requests, calls>>
        /\ context' = new_context
        /\ IF ok THEN add_data(page_chunks, summaries)
           ELSE IF failure = "add_data" THEN add_data_raising(page_chunks, summaries)
           ELSE UNCHANGED <<index, data, db_ret>>
        /\ metrics' = IF ok THEN record_request(metrics, TRUE, e, Len(ContextText(new_context)))
                      ELSE IF caught THEN record_request(metrics, FALSE, e, 0)
                      ELSE metrics
        /\ m_hist' = IF ok THEN Recorded(m_hist, TRUE, e, Len(ContextText(new_context)))
                     ELSE IF caught THEN Recorded(m_hist, FALSE, e, 0)
                     ELSE m_hist
        /\ m_ret' = IF ok \/ caught THEN "record_request" ELSE m_ret
        /\ ret' = [op |-> "extract_content_from_url",
                   url_valid |-> is_valid_url(url),
                   admitted |-> Ran(failure, "can_proceed") /\ admitted,
                   steps |-> SelectSeq(ExtractSteps, LAMBDA s : Ran(failure, s)),
                   failure |-> failure,
                   summarized |-> IF ~Ran(failure, "summarize") THEN 0
                                  ELSE IF failure = "summarize" THEN summ_fail - 1
                                  ELSE Len(page_chunks),
                   escaped |-> ~ok /\ ~caught,
                   value |-> IF ok THEN <<TRUE, <<"Content extraction completed successfully">>>>
                             ELSE IF caught
                             THEN <<FALSE, <<"Content extraction failed: ">> \o ExtractReason(failure, page)>>
                             ELSE <<>>,
                   pre |-> Pre]
        /\ hist' = [hist EXCEPT !.ops = @ + 1,
                                !.ingests = IF ok THEN @ + 1 ELSE @]

ExtractContent ==
    /\ hist.ops < MaxOps
    /\ \E page \in FetchResults, url \in Urls, gap \in Gaps, e \in Elapsed,
          embed_ok \in BOOLEAN :
       \E summ_fail \in 0..(IF page = FetchError THEN 0 ELSE Len(ChunksOf[page])) :
          /\ now + gap + e <= MaxNow
          /\ ExtractInputs(url, Admit(Evict(requests, now + gap), requests_per_minute),
                           page, summ_fail, embed_ok)
          /\ now' = now + gap + e
          /\ extract_content_from_url(url, page, summ_fail, embed_ok, now + gap, e)
    /\ UNCHANGED <<requests_per_minute, emb, snapshot, cache, chunkVars, apiVars, stepVars>>


\* A context built from the text of each record whatever use_summary says.
ContextItemText(item, use_summary) == item.text

\* item["summary"] if use_summary else item["text"]
ContextItem(item, use_summary) ==
    IF use_summary THEN item.summary ELSE item.text

\* Model._prepare_messages
_prepare_messages(query, ctx) ==
    <<[role |-> "system", content |-> <<"Context: ">> \o ctx],
      [role |-> "user", content |-> <<"You are an AI assistant. ...\n">> \o query]>>

\* What self.client.chat.completions.create may do: answer, or raise.
CompletionError == <<"completion error">>
Completions == {<<"STUB">>, CompletionError}

RateLimitMessage == <<"Rate limit exceeded. Please try again later.">>

\* The step of generate_response that raises, or "none": the embedder or
\* self.data[i] in search, or the completion provider.
GenerateFailure(found, embed_ok, completion) ==
    IF ~embed_ok \/ found.raised THEN "search"
    ELSE IF completion = CompletionError THEN "completion"
    ELSE "none"

GenerateReason(failure, embed_ok) ==
    CASE failure = "search" ->
            IF embed_ok THEN <<"list index out of range">> ELSE <<"embedding error">>
      [] failure = "completion" -> CompletionError

\* A handler whose try block holds the completion call only.
GenerateCatchesCompletion(failure) == failure = "completion"

\* except Exception as e (line 247): every step of the try block is caught.
GenerateCatches(failure) == failure \in {"search", "completion"}

\* The outcome of a step that is not run is held at one value.
GenerateInputs(admitted, found, use_summary, embed_ok, completion) ==
    LET failure == GenerateFailure(found, embed_ok, completion)
    IN  /\ ~admitted => embed_ok
        /\ (~admitted \/ failure = "search") =>
              (use_summary /\ completion = CompletionError)

\* Model.generate_response, entered at clock t0 and left e later.
generate_response(query, max_tokens, use_summary, embed_ok, completion, t0, e) ==
    \E found \in {search(query, TopK)} :
    LET admitted == Admit(Evict(requests, t0), requests_per_minute)
        failure == IF admitted THEN GenerateFailure(found, embed_ok, completion)
                   ELSE "none"
        ok == admitted /\ failure = "none"
        caught == GenerateCatches(failure)
        context_items == [n \in 1..Len(found.results) |->
                            ContextItem(found.results[n], use_summary)]
        messages == _prepare_messages(query, JoinLines(context_items))
    IN  /\ can_proceed(t0)
        /\ db_ret' = IF admitted /\ embed_ok THEN found ELSE db_ret
        /\ metrics' = IF ok THEN record_request(metrics, TRUE, e, max_tokens)
                      ELSE IF admitted /\ caught THEN record_request(metrics, FALSE, e, 0)
                      ELSE metrics
        /\ m_hist' = IF ok THEN Recorded(m_hist, TRUE, e, max_tokens)
                     ELSE IF admitted /\ caught THEN Recorded(m_hist, FALSE, e, 0)
                     ELSE m_hist
        /\ m_ret' = IF ok \/ (admitted /\ caught) THEN "record_request" ELSE m_ret
        /\ ret' = [op |-> "generate_response",
                   query |-> query,
                   admitted |-> admitted,
                   failure |-> failure,
                   use_summary |-> use_summary,
                   escaped |-> admitted /\ ~ok /\ ~caught,
                   completion_called |-> admitted /\ failure \in {"none", "completion"},
                   messages |-> IF admitted /\ failure \in {"none", "completion"}
                                THEN messages ELSE <<>>,
                   value |-> IF ~admitted THEN RateLimitMessage
                             ELSE IF ok THEN completion
                             ELSE IF caught
                             THEN <<"API request failed: ">> \o GenerateReason(failure, embed_ok)
                             ELSE <<>>,
                   pre |-> Pre]
        /\ hist' = [hist EXCEPT !.ops = @ + 1]

GenerateResponse ==
    /\ hist.ops < MaxOps
    /\ \E query \in Queries, use_summary \in BOOLEAN, embed_ok \in BOOLEAN,
          completion \in Completions, gap \in Gaps, e \in Elapsed :
          /\ now + gap + e <= MaxNow
          /\ GenerateInputs(Admit(Evict(requests, now + gap), requests_per_minute),
                            search(query, TopK), use_summary, embed_ok, completion)
          /\ now' = now + gap + e
          /\ generate_response(query, MaxTokens, use_summary, embed_ok,
                               completion, now + gap, e)
    /\ UNCHANGED <<requests_per_minute, emb, index, data, snapshot, context,
                   cache, chunkVars, apiVars, stepVars>>


\* The snapshots handed to import_state: the metrics of two requests, one
\* of them successful, and one record, with any of the keys left out.
SnapshotMetrics ==
    [total_requests |-> 2, successful_requests |-> 1,
     average_response_time |-> <<1, 2>>, uptime |-> 1]
SnapshotRecord ==
    [text |-> Rep(".", MinContentLength),
     summary |-> Summary(Rep(".", MinContentLength)), embedding |-> 0]
SnapshotKeys == {"metrics", "vector_database", "messages"}
Snapshot(keys, records) ==
    [k \in keys |-> CASE k = "metrics" -> SnapshotMetrics
                      [] k = "vector_database" -> records
                      [] k = "messages" -> <<>>]
Snapshots ==
    {Snapshot(keys, records) :
        keys \in SUBSET SnapshotKeys, records \in {<<SnapshotRecord>>}}

\* Model.import_state at clock t: state["metrics"] and then
\* state["vector_database"] raise KeyError when the key is missing.
import_state(state, t) ==
    LET has_metrics == "metrics" \in DOMAIN state
        has_database == "vector_database" \in DOMAIN state
    IN  /\ metrics' = IF has_metrics THEN from_dict(state["metrics"], t) ELSE metrics
        /\ m_hist' = IF has_metrics THEN Restored(m_hist) ELSE m_hist
        /\ m_ret' = IF has_metrics THEN "from_dict" ELSE m_ret
        /\ IF has_metrics /\ has_database
           THEN db_from_dict(state["vector_database"])
           ELSE UNCHANGED <<index, data>>
        /\ ret' = [op |-> "import_state",
                   state |-> state,
                   escaped |-> ~(has_metrics /\ has_database),
                   value |-> IF ~has_metrics THEN <<"KeyError", "metrics">>
                             ELSE IF ~has_database THEN <<"KeyError", "vector_database">>
                             ELSE <<>>,
                   pre |-> Pre]
        /\ hist' = [hist EXCEPT !.ops = @ + 1,
                                !.imports = IF has_metrics /\ has_database
                                            THEN @ + 1 ELSE @]

ImportState ==
    /\ hist.ops < MaxOps
    /\ \E state \in Snapshots : import_state(state, now)
    /\ UNCHANGED <<now, rateVars, emb, db_ret, snapshot, context, cache,
                   chunkVars, apiVars, stepVars>>

\* The keys client code looks up in Model.cache.
CacheKeys == {"k"}

\* model.cache[key] for a key the cache does not hold: the cache is a
\* defaultdict(dict), which inserts the key with an empty dict.
CacheLookup ==
    /\ \E key \in CacheKeys \ cache : cache' = cache \cup {key}
    /\ ret' = [op |-> "cache_lookup"]
    /\ UNCHANGED <<now, rateVars, metricVars, dbVars, chunkVars, context, hist,
                   apiVars, stepVars>>

\* A clear that resets the database with the context and the cache.
clear_all ==
    /\ context' = <<>>
    /\ cache' = {}
    /\ index' = <<>>
    /\ data' = <<>>
    /\ UNCHANGED <<now, rateVars, metricVars, emb, db_ret>>

\* Model.clear
clear ==
    /\ context' = <<>>
    /\ cache' = {}
    /\ UNCHANGED <<now, rateVars, metricVars, dbVars>>

\* A call of Model.clear; again says that the call before it was a clear too.
Clear ==
    /\ hist.ops < MaxOps
    /\ clear
    /\ ret' = [op |-> "clear", again |-> ret.op = "clear", pre |-> Pre]
    /\ hist' = [hist EXCEPT !.ops = @ + 1, !.clears = @ + 1]
    /\ UNCHANGED <<chunkVars, apiVars, stepVars>>

-----------------------------------------------------------------------------
(* src/crawlgpt/ui/app.py: the API in front of one Model per user.         *)
(* The Model of the variables above is the Model of the user's session;     *)
(* the chat-history database answers every call.                           *)

\* The users whose requests are followed.
Users == {"u"}

\* RATE_LIMIT = 10  # requests per minute
RateLimit == 10

\* Model(): rate_limit_rpm defaults to 60.
DefaultRpm == 60

\* The number of requests to the API followed, exports apart.
MaxApiRequests == 3

\* The pages the crawler returns to the API, or its failure.
ApiFetchResults == {"short", "padded", FetchError}

\* len(s.split()): the number of runs of characters that are not whitespace.
WordCount(s) ==
    Cardinality({i \in Inked(s) : i = 1 \/ s[i - 1] \in Whitespace})

\* len(response.split()) of what generate_response returns, piece by piece.
PieceWords(piece) ==
    CASE piece = "STUB" -> 1
      [] piece = "Rate limit exceeded. Please try again later." -> 7
      [] piece = "API request failed: " -> 3
      [] piece = "list index out of range" -> 5
      [] piece = "embedding error" -> 2
      [] piece = "completion error" -> 2
RECURSIVE ResponseWords(_)
ResponseWords(response) ==
    IF response = <<>> THEN 0
    ELSE PieceWords(Head(response)) + ResponseWords(Tail(response))

\* token_required: the session a user's first authenticated request creates.
NewSession(t) ==
    [url_processed |-> FALSE, metrics |-> MetricsNew(0, 0, <<0, 1>>, 0, t)]

\* user_sessions[current_user_id], once token_required has run at clock t.
Session(u, t) ==
    IF u \in DOMAIN user_sessions THEN user_sessions[u] ELSE NewSession(t)

\* A write that sets the session of every user to s.
PutEvery(u, s) == [v \in DOMAIN user_sessions \cup {u} |-> s]

\* user_sessions with the session of u set to s.
Put(u, s) ==
    [v \in DOMAIN user_sessions \cup {u} |-> IF v = u THEN s ELSE user_sessions[v]]

\* A filter that keeps a timestamp exactly a minute old.
RecentInclusive(q, t) == SelectSeq(q, LAMBDA x : t - x <= Window)

\* rate_limit: [t for t in rate_limit_data[user] if current_time - t < 60]
Recent(q, t) == SelectSeq(q, LAMBDA x : t - x < Window)

\* rate_limit: len(rate_limit_data[current_user_id]) >= RATE_LIMIT
OverLimit(u, t) == Len(Recent(rate_limit_data[u], t)) >= RateLimit

\* The times of q less than a minute before t.
LastMinute(q, t) == SelectSeq(q, LAMBDA x : x > t - Window)

\* rate_limit with fewer than ten requests of the last minute on record:
\* the timestamp is appended and the handler is run.
Admitted(u, t) ==
    /\ rate_limit_data' = [rate_limit_data EXCEPT ![u] = Append(Recent(@, t), t)]
    /\ api_runs' = [api_runs EXCEPT ![u] = Append(LastMinute(@, t), t)]

\* What a request was answered: the status code and the message, with the
\* flag of the session as the request found it, whether the handler called
\* generate_response, and the number of requests answered so far, exports
\* apart.
Answer(endpoint, u, status, message, flag, called) ==
    api_ret' = [endpoint |-> endpoint, user |-> u, status |-> status,
                message |-> message, url_processed |-> flag, called |-> called,
                n |-> api_ret.n + 1]

\* token_required with a token that is missing or does not decode: 401,
\* before any session is created.
Unauthorized(endpoint, u) ==
    /\ Answer(endpoint, u, 401, "Token is invalid!", FALSE, FALSE)
    /\ UNCHANGED <<now, rateVars, metricVars, dbVars, chunkVars, modelVars,
                   user_sessions, rate_limit_data, api_runs, chat_history>>

\* rate_limit with ten requests of the last minute on record: 429, the
\* handler is not run.
TooManyRequests(endpoint, u, t) ==
    /\ Answer(endpoint, u, 429, "Rate limit exceeded. Please try again later.",
              Session(u, t).url_processed, FALSE)
    /\ now' = t
    /\ user_sessions' = Put(u, Session(u, t))
    /\ rate_limit_data' = [rate_limit_data EXCEPT ![u] = Recent(@, t)]
    /\ UNCHANGED api_runs
    /\ UNCHANGED <<rateVars, metricVars, dbVars, chunkVars, modelVars, chat_history>>

\* A handler that answers without a call on the Model and without a change
\* of the session.
Refuse(endpoint, u, status, message, t) ==
    /\ Answer(endpoint, u, status, message, Session(u, t).url_processed, FALSE)
    /\ user_sessions' = Put(u, Session(u, t))
    /\ UNCHANGED <<rateVars, metricVars, dbVars, chunkVars, modelVars, chat_history>>

\* save_chat_message(user, message, role, context)
save_chat_message(rows, role, ctx) == Append(rows, [role |-> role, context |-> ctx])

\* process_url, admitted by rate_limit at clock t; the extraction takes e.
process_url(u, blank, url, page, summ_fail, embed_ok, t, e) ==
    LET s == Session(u, t)
    IN  IF blank
        THEN Refuse("process-url", u, 400, "Please enter a valid URL.", t) /\ now' = t
        ELSE IF ~is_valid_url(url)
        THEN Refuse("process-url", u, 400, "Invalid URL format", t) /\ now' = t
        ELSE /\ hist.ops < MaxOps
             /\ now' = t + e
             /\ extract_content_from_url(url, page, summ_fail, embed_ok, t, e)
             /\ LET success == ~ret'.escaped /\ ret'.value[1]
                IN  /\ user_sessions' =
                          Put(u, IF success
                                 THEN [url_processed |-> TRUE,
                                       metrics |-> record_request(
                                           s.metrics, TRUE, e,
                                           WordCount(ContextText(context')))]
                                 ELSE IF ret'.escaped
                                 THEN [s EXCEPT !.metrics =
                                          record_request(@, FALSE, e, 0)]
                                 ELSE s)
                    /\ chat_history' =
                          IF success
                          THEN [chat_history EXCEPT
                                   ![u] = save_chat_message(@, "system", context')]
                          ELSE chat_history
                    /\ Answer("process-url", u, 200,
                              IF success THEN "URL processed successfully"
                              ELSE "extraction failed",
                              s.url_processed, FALSE)
             /\ UNCHANGED <<requests_per_minute, emb, snapshot, cache, chunkVars>>

ApiProcessUrl ==
    /\ api_ret.n < MaxApiRequests
    /\ UNCHANGED <<users, stepVars>>
    /\ \E u \in {serving}, gap \in Gaps :
        LET t == now + gap
        IN  /\ t <= MaxNow
            /\ \/ Unauthorized("process-url", u)
               \/ OverLimit(u, t) /\ TooManyRequests("process-url", u, t)
               \/ /\ ~OverLimit(u, t)
                  /\ Admitted(u, t)
                  /\ \E blank \in BOOLEAN, url \in Urls, page \in ApiFetchResults,
                        embed_ok \in BOOLEAN, e \in Elapsed :
                     \E summ_fail \in 0..(IF page = FetchError THEN 0
                                          ELSE Len(ChunksOf[page])) :
                        /\ t + e <= MaxNow
                        /\ blank => url.scheme = "" /\ url.netloc = ""
                        /\ ExtractInputs(
                               url, Admit(Evict(requests, t), requests_per_minute),
                               page, summ_fail, embed_ok)
                        /\ process_url(u, blank, url, page, summ_fail, embed_ok, t, e)

\* chat_endpoint, admitted by rate_limit at clock t; the answer takes e.
chat_endpoint(u, query, use_summary, embed_ok, completion, t, e) ==
    LET s == Session(u, t)
    IN  IF ~s.url_processed
        THEN Refuse("chat", u, 400, "Please process a URL first", t) /\ now' = t
        ELSE /\ hist.ops < MaxOps
             /\ now' = t + e
             /\ generate_response(query, MaxTokens, use_summary, embed_ok,
                                  completion, t, e)
             /\ user_sessions' =
                   Put(u, [s EXCEPT !.metrics =
                              IF ret'.escaped THEN record_request(@, FALSE, e, 0)
                              ELSE record_request(@, TRUE, e,
                                                  ResponseWords(ret'.value))])
             /\ chat_history' =
                   [chat_history EXCEPT
                       ![u] = IF ret'.escaped
                              THEN save_chat_message(@, "user", context)
                              ELSE save_chat_message(
                                       save_chat_message(@, "user", context),
                                       "assistant", context)]
             /\ Answer("chat", u, IF ret'.escaped THEN 500 ELSE 200,
                       IF ret'.escaped THEN "Error generating response"
                       ELSE "response",
                       s.url_processed, TRUE)
             /\ UNCHANGED <<requests_per_minute, emb, index, data, snapshot,
                            context, cache, chunkVars>>

ApiChat ==
    /\ api_ret.n < MaxApiRequests
    /\ UNCHANGED <<users, stepVars>>
    /\ \E u \in {serving}, gap \in Gaps :
        LET t == now + gap
        IN  /\ t <= MaxNow
            /\ \/ Unauthorized("chat", u)
               \/ OverLimit(u, t) /\ TooManyRequests("chat", u, t)
               \/ /\ ~OverLimit(u, t)
                  /\ Admitted(u, t)
                  /\ \E query \in Queries, use_summary \in BOOLEAN,
                        embed_ok \in BOOLEAN, completion \in Completions,
                        e \in Elapsed :
                        /\ t + e <= MaxNow
                        /\ IF Session(u, t).url_processed
                           THEN GenerateInputs(
                                    Admit(Evict(requests, t), requests_per_minute),
                                    search(query, TopK), use_summary, embed_ok,
                                    completion)
                           ELSE use_summary /\ embed_ok /\ completion = CompletionError
                        /\ chat_endpoint(u, query, use_summary, embed_ok,
                                         completion, t, e)

\* A clear_history that leaves the flag of the session as it is.
clear_history_keeping_flag(u) ==
    /\ chat_history' = [chat_history EXCEPT ![u] = <<>>]
    /\ user_sessions' = Put(u, Session(u, now))
    /\ Answer("chat/clear", u, 200, "Chat history cleared",
              Session(u, now).url_processed, FALSE)

\* clear_history: delete_user_chat_history, then url_processed = False.
clear_history(u) ==
    /\ chat_history' = [chat_history EXCEPT ![u] = <<>>]
    /\ user_sessions' = Put(u, [Session(u, now) EXCEPT !.url_processed = FALSE])
    /\ Answer("chat/clear", u, 200, "Chat history cleared",
              Session(u, now).url_processed, FALSE)

ApiChatClear ==
    /\ api_ret.n < MaxApiRequests
    /\ UNCHANGED <<users, stepVars>>
    /\ \E u \in {serving} :
        \/ Unauthorized("chat/clear", u)
        \/ /\ clear_history(u)
           /\ UNCHANGED <<now, rateVars, metricVars, dbVars, chunkVars, modelVars,
                          rate_limit_data, api_runs>>

\* The contexts of the rows that have one, joined by newlines.
RECURSIVE JoinedContexts(_)
JoinedContexts(rows) ==
    IF rows = <<>> THEN <<>>
    ELSE Head(rows).context \o JoinedContexts(Tail(rows))

\* restore_history: model.clear(), the context rebuilt from the chat
\* history and, when it is not empty, chunked, summarized and added to the
\* database again.  The summarizer may fail on chunk summ_fail and the
\* embedder in add_data; the handler then answers 500.
restore_history(u, summ_fail, embed_ok) ==
    \E ctx \in {JoinedContexts(chat_history[u])} :
    \E page_chunks \in {chunk_text(ContextText(ctx), DefaultChunkSize)} :
    LET s == Session(u, now)
        summaries == [n \in 1..Len(page_chunks) |-> Summary(page_chunks[n])]
        failure == IF ctx = <<>> THEN "none"
                   ELSE IF summ_fail \in 1..Len(page_chunks) THEN "summarize"
                   ELSE IF ~embed_ok THEN "add_data"
                   ELSE "none"
        added == ctx # <<>> /\ failure = "none"
    IN  /\ hist.ops < MaxOps
        /\ \A n \in 1..Len(page_chunks) : page_chunks[n] \in DOMAIN emb
        /\ (ctx = <<>> \/ failure = "summarize") => embed_ok
        /\ summ_fail <= Len(page_chunks)
        /\ cache' = {}
        /\ context' = ctx
        /\ IF added THEN add_data(page_chunks, summaries)
           ELSE IF failure = "add_data"
           THEN add_data_raising(page_chunks, summaries)
           ELSE UNCHANGED <<index, data, db_ret>>
        /\ ret' = [op |-> "restore_history", failure |-> failure, pre |-> Pre]
        /\ hist' = [hist EXCEPT !.ops = @ + 1]
        /\ user_sessions' =
              Put(u, IF added THEN [s EXCEPT !.url_processed = TRUE] ELSE s)
        /\ Answer("chat/restore", u, IF failure = "none" THEN 200 ELSE 500,
                  IF failure = "none" THEN "Full conversation state restored"
                  ELSE "Restoration failed",
                  s.url_processed, FALSE)
        /\ UNCHANGED <<now, rateVars, metricVars, emb, chunkVars,
                       rate_limit_data, api_runs, chat_history>>

ApiChatRestore ==
    /\ api_ret.n < MaxApiRequests
    /\ UNCHANGED <<users, stepVars>>
    /\ \E u \in {serving} :
        \/ Unauthorized("chat/restore", u)
        \/ \E summ_fail \in 0..MaxBatch, embed_ok \in BOOLEAN :
              restore_history(u, summ_fail, embed_ok)

\* export_data: the metrics of the session, the records of the database with
\* their vectors, and the rows of the chat history.
export_data(u) ==
    LET s == Session(u, now)
    IN  /\ backup' = <<[k \in SnapshotKeys |->
                          CASE k = "metrics" -> to_dict(s.metrics, now)
                            [] k = "vector_database" -> db_to_dict(index, data)
                            [] k = "messages" -> chat_history[u]],
                      s.url_processed>>
        /\ user_sessions' = Put(u, s)
        /\ api_ret' = [endpoint |-> "export", user |-> u, status |-> 200,
                       message |-> "exported", url_processed |-> s.url_processed,
                       called |-> FALSE, n |-> api_ret.n]

\* A request to /api/export, which changes neither the Model nor the chat
\* history; without a valid token it is answered 401.
ApiExport ==
    /\ \E u \in {serving} :
        \/ /\ api_ret' = [endpoint |-> "export", user |-> u, status |-> 401,
                          message |-> "Token is invalid!", url_processed |-> FALSE,
                          called |-> FALSE, n |-> api_ret.n]
           /\ UNCHANGED <<user_sessions, backup>>
        \/ export_data(u)
    /\ UNCHANGED <<now, rateVars, metricVars, dbVars, chunkVars, modelVars,
                   rate_limit_data, api_runs, chat_history, users, adding,
                   callers, sessVars>>

\* import_data: a body without data or without one of the required keys is
\* answered 400; otherwise model.import_state, the chat history replaced by
\* the messages of the body, the flag set by the context, and the metrics
\* of the session replaced.
import_data(u, has_data, state) ==
    LET s == Session(u, now)
    IN  IF ~has_data
        THEN Refuse("import", u, 400, "No data provided", now) /\ UNCHANGED now
        ELSE IF ~(SnapshotKeys \subseteq DOMAIN state)
        THEN Refuse("import", u, 400, "Invalid backup file structure", now)
             /\ UNCHANGED now
        ELSE /\ hist.ops < MaxOps
             /\ import_state(state, now)
             /\ chat_history' =
                   [chat_history EXCEPT
                       ![u] = [n \in 1..Len(state["messages"]) |->
                                 [role |-> state["messages"][n].role,
                                  context |-> state["messages"][n].context]]]
             /\ user_sessions' =
                   Put(u, [url_processed |-> context # <<>>,
                           metrics |-> from_dict(state["metrics"], now)])
             /\ Answer("import", u, 200, "Data imported successfully",
                       s.url_processed, FALSE)
             /\ UNCHANGED <<now, rateVars, emb, db_ret, snapshot, context, cache,
                            chunkVars>>

ApiImport ==
    /\ api_ret.n < MaxApiRequests
    /\ UNCHANGED <<users, stepVars>>
    /\ \E u \in {serving} :
        \/ Unauthorized("import", u)
        \/ /\ \E has_data \in BOOLEAN,
                 state \in Snapshots
                            \cup (IF backup = <<>> THEN {} ELSE {backup[1]}) :
                 /\ ~has_data => state = Snapshot({}, <<>>)
                 /\ import_data(u, has_data, state)
           /\ UNCHANGED <<rate_limit_data, api_runs>>

\* clear_all_data: model.clear(), the chat history deleted, the flag reset
\* and the metrics of the session replaced by new ones.
clear_all_data(u) ==
    /\ hist.ops < MaxOps
    /\ clear
    /\ ret' = [op |-> "clear", again |-> ret.op = "clear", pre |-> Pre]
    /\ hist' = [hist EXCEPT !.ops = @ + 1, !.clears = @ + 1]
    /\ chat_history' = [chat_history EXCEPT ![u] = <<>>]
    /\ user_sessions' = Put(u, NewSession(now))
    /\ Answer("clear-all", u, 200, "All data cleared successfully",
              Session(u, now).url_processed, FALSE)
    /\ UNCHANGED <<chunkVars, rate_limit_data, api_runs>>

ApiClearAll ==
    /\ api_ret.n < MaxApiRequests
    /\ UNCHANGED <<users, stepVars>>
    /\ \E u \in {serving} :
        \/ Unauthorized("clear-all", u)
        \/ clear_all_data(u)

\* The users of the limiter's table, and the time between two requests.
LimitUsers == {"u", "v"}
LimitGaps == {0, Window - 1, Window}

\* rate_limit(f).decorated(current_user_id) at clock t, around a handler f
\* that answers 200 and leaves the table alone.
rate_limit(u, t) ==
    /\ now' = t
    /\ IF OverLimit(u, t)
       THEN /\ rate_limit_data' = [rate_limit_data EXCEPT ![u] = Recent(@, t)]
            /\ UNCHANGED api_runs
            /\ api_ret' = [endpoint |-> "f", user |-> u, status |-> 429,
                           message |-> "Rate limit exceeded. Please try again later.",
                           called |-> FALSE, n |-> api_ret.n]
       ELSE /\ Admitted(u, t)
            /\ api_ret' = [endpoint |-> "f", user |-> u, status |-> 200,
                           message |-> "f", called |-> TRUE, n |-> api_ret.n]

ApiRateLimited ==
    /\ \E u \in LimitUsers, gap \in LimitGaps :
          /\ now + gap <= MaxNow
          /\ rate_limit(u, now + gap)
    /\ UNCHANGED <<rateVars, metricVars, dbVars, chunkVars, modelVars,
                   user_sessions, chat_history, users, stepVars>>

\* The bodies of a registration: a name, a password and an address, each of
\* which may be left out ("").
Registrations ==
    [username : {"a", "b", "c", ""}, password : {"p", "q", ""},
     email : {"e", "f", ""}]

\* pwd_context.hash(password); pwd_context.verify(password, hash) holds of
\* the hashes of the password.
Hash(password) == [scheme |-> "bcrypt", of |-> password]

\* session.query(User).filter(User.username == username).first(), or None
None == [id |-> 0]
FirstUser(username) ==
    IF \E i \in 1..Len(users) : users[i].username = username
    THEN users[CHOOSE i \in 1..Len(users) :
                  /\ users[i].username = username
                  /\ \A j \in 1..(i - 1) : users[j].username # username]
    ELSE None

\* database.authenticate_user
authenticate_user(username, password) ==
    LET user == FirstUser(username)
    IN  IF user # None /\ user.password_hash = Hash(password) THEN user ELSE None

\* database.create_user: the table after the call; a taken username leaves
\* it as it is (the function then returns False).
create_user(username, password, email) ==
    IF FirstUser(username) # None THEN users
    ELSE Append(users, [id |-> Len(users) + 1, username |-> username,
                        password_hash |-> Hash(password), email |-> email])

\* app.register
register(username, password, email) ==
    IF username = "" \/ password = "" \/ email = ""
    THEN /\ users' = users
         /\ api_ret' = [endpoint |-> "register", username |-> username,
                        status |-> 400,
                        message |-> "Username, password and email are required!",
                        n |-> api_ret.n]
    ELSE IF authenticate_user(username, password) # None
    THEN /\ users' = users
         /\ api_ret' = [endpoint |-> "register", username |-> username,
                        status |-> 400, message |-> "User already exists!",
                        n |-> api_ret.n]
    ELSE /\ users' = create_user(username, password, email)
         /\ api_ret' = [endpoint |-> "register", username |-> username,
                        status |-> 200, message |-> "User created successfully!",
                        n |-> api_ret.n]

ApiRegister ==
    /\ \E body \in Registrations :
          register(body.username, body.password, body.email)
    /\ UNCHANGED <<now, rateVars, metricVars, dbVars, chunkVars, modelVars,
                   user_sessions, rate_limit_data, api_runs, chat_history,
                   stepVars>>

\* The server starts again: user_sessions and rate_limit_data are the empty
\* tables of the module once more and the Model of a session is gone with
\* it, while the ChatHistory rows stay in the database.
ApiRestart ==
    /\ DOMAIN user_sessions # {}
    /\ user_sessions' = [u \in {} |-> NewSession(0)]
    /\ rate_limit_data' = [u \in DOMAIN rate_limit_data |-> <<>>]
    /\ api_ret' = [endpoint |-> "restart", n |-> api_ret.n]
    /\ requests' = <<>>
    /\ calls' = <<>>
    /\ metrics' = MetricsNew(0, 0, <<0, 1>>, 0, now)
    /\ snapshot' = <<>>
    /\ m_ret' = "init"
    /\ m_hist' = MHistNew
    /\ index' = <<>>
    /\ data' = <<>>
    /\ db_ret' = [op |-> "init"]
    /\ context' = <<>>
    /\ cache' = {}
    /\ ret' = [op |-> "init"]
    /\ hist' = [ops |-> 0, ingests |-> 0, imports |-> 0, clears |-> 0]
    /\ UNCHANGED <<now, requests_per_minute, emb, chunkVars, chat_history,
                   api_runs, users, stepVars>>

\* 'model': Model(), as token_required creates it at clock t.
FreshModel(t) ==
    [requests |-> <<>>, metrics |-> MetricsNew(0, 0, <<0, 1>>, 0, t),
     index |-> <<>>, data |-> <<>>, context |-> <<>>, cache |-> {}]

\* model = user_session['model']: the Model of the session served.
ServedModel ==
    [requests |-> requests, metrics |-> metrics, index |-> index, data |-> data,
     context |-> context, cache |-> cache]

\* The next request comes from another user, v: the handlers will work on
\* the Model of v's session, which token_required creates if v has none,
\* and the Model served so far stays in its session.
Serve ==
    /\ \E v \in DOMAIN parked :
          LET mdl == IF v \in DOMAIN user_sessions THEN parked[v]
                     ELSE FreshModel(now)
          IN  /\ serving' = v
              /\ parked' = [w \in (DOMAIN parked \cup {serving}) \ {v} |->
                               IF w = serving THEN ServedModel ELSE parked[w]]
              /\ requests' = mdl.requests
              /\ metrics' = mdl.metrics
              /\ index' = mdl.index
              /\ data' = mdl.data
              /\ context' = mdl.context
              /\ cache' = mdl.cache
    /\ UNCHANGED <<now, requests_per_minute, calls, snapshot, m_ret, m_hist, emb,
                   db_ret, chunkVars, ret, hist, apiVars, adding, callers, backup>>

\* No request was made yet: no session, no request on record, no history.
InitApi ==
    /\ user_sessions = [u \in {} |-> NewSession(0)]
    /\ rate_limit_data = [u \in Users |-> <<>>]
    /\ api_runs = [u \in Users |-> <<>>]
    /\ chat_history = [u \in Users |-> <<>>]
    /\ users = <<>>
    /\ api_ret = [endpoint |-> "init", n |-> 0]

-----------------------------------------------------------------------------
(* The specifications. *)

\* A fresh limiter.
InitRate ==
    /\ requests_per_minute \in 1..MaxRpm
    /\ requests = <<>>
    /\ calls = <<>>

\* MetricsCollector.__init__ at clock 0.
InitMetrics ==
    /\ metrics = MetricsNew(0, 0, <<0, 1>>, 0, 0)
    /\ snapshot = <<>>
    /\ m_ret = "init"
    /\ m_hist = MHistNew

\* VectorDatabase.__init__, with some embedder.
InitDB ==
    /\ emb \in [Texts -> Vecs]
    /\ index = <<>>
    /\ data = <<>>
    /\ db_ret = [op |-> "init"]

\* Entry to chunk_text(text, chunk_size).
InitChunk ==
    /\ text \in SeqsUpTo(Chars, MaxLen)
    /\ chunk_size \in 0..MaxChunk
    /\ start = 0
    /\ chunks = <<>>
    /\ chunk_count = 0
    /\ slices = <<>>
    /\ pc = "entry"

\* What each specification holds still of the other components.
IdleRate == requests_per_minute = 1 /\ requests = <<>> /\ calls = <<>>
IdleDB ==
    /\ emb = [t \in Texts |-> 0]
    /\ index = <<>>
    /\ data = <<>>
    /\ db_ret = [op |-> "init"]
IdleChunk ==
    /\ text = <<>>
    /\ chunk_size = 1
    /\ start = 0
    /\ chunks = <<>>
    /\ chunk_count = 0
    /\ slices = <<>>
    /\ pc = "done"

\* Model.__init__: the embedder of the session, an empty context.
Embedders ==
    {[t \in ModelTexts |-> 0],
     [t \in ModelTexts |-> IF Len(t) > MinContentLength THEN MaxCoord ELSE 0]}
InitModelDB ==
    /\ emb \in Embedders
    /\ index = <<>>
    /\ data = <<>>
    /\ db_ret = [op |-> "init"]
InitModel ==
    /\ context = <<>>
    /\ cache = {}
    /\ ret = [op |-> "init"]
    /\ hist = [ops |-> 0, ingests |-> 0, imports |-> 0, clears |-> 0]
IdleModel == InitModel
\* No add_data call and no can_proceed call is in progress.
IdleSteps ==
    /\ adding = [pc |-> "idle"]
    /\ callers = [c \in Callers |-> [pc |-> "idle"]]
    /\ serving = "u"
    /\ parked = [v \in {} |-> FreshModel(0)]
    /\ backup = <<>>
IdleApi == InitApi /\ IdleSteps

InitSpecRate ==
    now = 0 /\ InitRate /\ InitMetrics /\ IdleDB /\ IdleChunk /\ IdleModel /\ IdleApi
NextRate == CanProceed
SpecRate == InitSpecRate /\ [][NextRate]_vars

InitSpecMetrics ==
    now = 0 /\ IdleRate /\ InitMetrics /\ IdleDB /\ IdleChunk /\ IdleModel /\ IdleApi
NextMetrics == RecordRequest \/ ExportMetrics \/ ImportMetrics
SpecMetrics == InitSpecMetrics /\ [][NextMetrics]_vars

InitSpecDB ==
    now = 0 /\ IdleRate /\ InitMetrics /\ InitDB /\ IdleChunk /\ IdleModel /\ IdleApi
NextDB == AddData \/ Search \/ RoundTrip
SpecDB == InitSpecDB /\ [][NextDB]_vars

InitSpecChunk ==
    now = 0 /\ IdleRate /\ InitMetrics /\ IdleDB /\ InitChunk /\ IdleModel /\ IdleApi
NextChunk == ChunkEnter \/ ChunkCut \/ ChunkLast \/ ChunkReturn
SpecChunk == InitSpecChunk /\ [][NextChunk]_vars

InitSpecModel ==
    now = 0 /\ InitRate /\ InitMetrics /\ InitModelDB /\ IdleChunk /\ InitModel /\ IdleApi
NextModel ==
    ExtractContent \/ GenerateResponse \/ ImportState \/ Clear \/ CacheLookup
SpecModel == InitSpecModel /\ [][NextModel]_vars

\* The API with the Model of one session: Model() with its default limit.
InitSpecApi ==
    /\ now = 0
    /\ requests_per_minute = DefaultRpm /\ requests = <<>> /\ calls = <<>>
    /\ InitMetrics
    /\ emb = [t \in ModelTexts |-> 0] /\ index = <<>> /\ data = <<>>
    /\ db_ret = [op |-> "init"]
    /\ IdleChunk /\ InitModel /\ InitApi /\ IdleSteps
NextApi ==
    ApiProcessUrl \/ ApiChat \/ ApiChatClear \/ ApiChatRestore \/ ApiImport
        \/ ApiClearAll \/ ApiRestart
SpecApi == InitSpecApi /\ [][NextApi]_vars

\* The API with two users, each with the Model of their own session.
InitSpecSessions ==
    /\ now = 0
    /\ requests_per_minute = DefaultRpm /\ requests = <<>> /\ calls = <<>>
    /\ InitMetrics
    /\ emb = [t \in ModelTexts |-> 0] /\ index = <<>> /\ data = <<>>
    /\ db_ret = [op |-> "init"]
    /\ IdleChunk /\ InitModel
    /\ user_sessions = [u \in {} |-> NewSession(0)]
    /\ rate_limit_data = [u \in LimitUsers |-> <<>>]
    /\ api_runs = [u \in LimitUsers |-> <<>>]
    /\ chat_history = [u \in LimitUsers |-> <<>>]
    /\ users = <<>>
    /\ api_ret = [endpoint |-> "init", n |-> 0]
    /\ adding = [pc |-> "idle"]
    /\ callers = [c \in Callers |-> [pc |-> "idle"]]
    /\ serving = "u"
    /\ parked = [v \in LimitUsers \ {"u"} |-> FreshModel(0)]
    /\ backup = <<>>
NextSessions ==
    ApiProcessUrl \/ ApiChat \/ ApiChatClear \/ ApiChatRestore \/ ApiImport
        \/ ApiClearAll \/ Serve
SpecSessions == InitSpecSessions /\ [][NextSessions]_vars

\* The API with the exports of one session, which its imports may read back.
InitSpecBackup ==
    /\ now = 0
    /\ requests_per_minute = DefaultRpm /\ requests = <<>> /\ calls = <<>>
    /\ InitMetrics
    /\ emb = [t \in ModelTexts |-> 0] /\ index = <<>> /\ data = <<>>
    /\ db_ret = [op |-> "init"]
    /\ IdleChunk /\ InitModel /\ InitApi /\ IdleSteps
NextBackup ==
    ApiProcessUrl \/ ApiChat \/ ApiChatClear \/ ApiImport \/ ApiClearAll
        \/ ApiExport \/ ApiRestart
SpecBackup == InitSpecBackup /\ [][NextBackup]_vars

\* The limiter of the API alone, with the table of two users.
InitSpecLimit ==
    /\ now = 0 /\ IdleRate /\ InitMetrics /\ IdleDB /\ IdleChunk /\ IdleModel
    /\ IdleSteps
    /\ user_sessions = [u \in {} |-> NewSession(0)]
    /\ rate_limit_data = [u \in LimitUsers |-> <<>>]
    /\ api_runs = [u \in LimitUsers |-> <<>>]
    /\ chat_history = [u \in LimitUsers |-> <<>>]
    /\ users = <<>>
    /\ api_ret = [endpoint |-> "init", n |-> 0]
NextLimit == ApiRateLimited
SpecLimit == InitSpecLimit /\ [][NextLimit]_vars

\* The registrations alone, from an empty users table.
InitSpecUsers ==
    now = 0 /\ IdleRate /\ InitMetrics /\ IdleDB /\ IdleChunk /\ IdleModel /\ IdleApi
NextUsers == ApiRegister
SpecUsers == InitSpecUsers /\ [][NextUsers]_vars

\* A database whose add_data calls run statement by statement, with searches
\* between the statements.
InitSpecAdding ==
    now = 0 /\ IdleRate /\ InitMetrics /\ InitDB /\ IdleChunk /\ IdleModel /\ IdleApi
NextAdding == AddBegin \/ AddAppend \/ AddReturn \/ Search
SpecAdding == InitSpecAdding /\ [][NextAdding]_vars

\* Two callers of one limiter, their can_proceed calls interleaved step by step.
InitSpecRace ==
    now = 0 /\ InitRate /\ InitMetrics /\ IdleDB /\ IdleChunk /\ IdleModel /\ IdleApi
NextRace ==
    \E c \in Callers :
        CallEnter(c) \/ CallEvict(c) \/ CallCheck(c) \/ CallAppend(c)
SpecRace == InitSpecRace /\ [][NextRace]_vars

-----------------------------------------------------------------------------
(* The metrics. *)

\* failed_requests as a reader sees it: 0 while the attribute is not there.
FailedRequests(m) == IF m.failed_requests = NoAttr THEN 0 ELSE m.failed_requests

\* C1: after each record_request call, in every state reached by
\* record_request calls and restorations of the metrics,
\* total_requests = successful_requests + failed_requests.
C1_TotalIsSuccessPlusFailed ==
    m_ret = "record_request" =>
        metrics.total_requests =
            metrics.successful_requests + FailedRequests(metrics)

-----------------------------------------------------------------------------
(* The rate limiter. *)

\* The calls admitted in the closed span of Window seconds that starts at t.
AdmittedIn(t) ==
    {k \in 1..Len(calls) : calls[k].ok /\ t <= calls[k].t /\ calls[k].t <= t + Window}

\* C2: with a non-decreasing clock the queue never holds more than
\* requests_per_minute timestamps, they are in non-decreasing order, and no
\* span of 60 seconds holds more than requests_per_minute admitted calls.
C2_WindowBounded ==
    /\ Len(requests) <= requests_per_minute
    /\ \A i, j \in 1..Len(requests) : i < j => requests[i] <= requests[j]
    /\ \A k \in 1..Len(calls) :
          Cardinality(AdmittedIn(calls[k].t)) <= requests_per_minute

\* C2's case: the queue is full, a call was denied, and an admitted call has
\* been evicted since.
C2_Witness ==
    /\ Len(requests) = requests_per_minute
    /\ \E k \in 1..Len(calls) : ~calls[k].ok
    /\ Cardinality({k \in 1..Len(calls) : calls[k].ok}) > Len(requests)

\* The first requests_per_minute calls came in under 60 seconds.
Burst ==
    /\ Len(calls) >= requests_per_minute
    /\ \A k \in 1..requests_per_minute : calls[k].t < calls[1].t + Window

\* Call k was made no later than 60 seconds after the first call.
InFirstWindow(k) == calls[k].t <= calls[1].t + Window

\* C3: on a fresh limiter requests_per_minute calls in under 60 seconds are
\* all admitted, a further call is denied as long as the clock is within 60
\* seconds of the first call, and the first call made past 60 seconds from
\* the first call is admitted.
C3_BurstThenDenyThenAdmit ==
    Burst =>
        /\ \A k \in 1..requests_per_minute : calls[k].ok
        /\ \A k \in (requests_per_minute + 1)..Len(calls) :
              /\ InFirstWindow(k) => ~calls[k].ok
              /\ (~InFirstWindow(k) /\ InFirstWindow(k - 1)) => calls[k].ok

\* C3's case: two calls a second apart, a third denied in the window, a
\* fourth admitted past it.
C3_Witness ==
    /\ requests_per_minute = 2
    /\ Len(calls) >= 4
    /\ Burst
    /\ calls[2].t > calls[1].t
    /\ InFirstWindow(3) /\ ~calls[3].ok
    /\ ~InFirstWindow(4) /\ calls[4].ok

-----------------------------------------------------------------------------
(* The vector database. *)

\* The distance of the stored vector with 0-based label i to the last query.
QueryDist(i) == L2sq(index[i + 1], emb[db_ret.query])

\* C4: search on an index that holds no records returns the empty list and
\* raises nothing.
C4_EmptyIndexSearch ==
    (db_ret.op = "search" /\ index = <<>> /\ data = <<>>) =>
        (~db_ret.raised /\ db_ret.results = <<>>)

\* C5: with 0 < N < top_k records search returns exactly N results, each
\* stored record once.
C5_FewerThanTopK ==
    (/\ db_ret.op = "search"
     /\ Len(index) = Len(data)
     /\ 0 < Len(data)
     /\ Len(data) < db_ret.top_k) =>
        /\ ~db_ret.raised
        /\ Len(db_ret.results) = Len(data)
        /\ \A p \in 1..Len(data) :
              \E n \in 1..Len(db_ret.results) : db_ret.results[n] = data[p]

\* C6: with N >= top_k records, each stored with its vector, search returns
\* exactly top_k distinct stored records by non-decreasing squared L2
\* distance to the query, the earlier-inserted first among equally distant
\* ones, and no record left out is nearer than one returned.
C6_TopKNearest ==
    (/\ db_ret.op = "search"
     /\ Len(index) = Len(data)
     /\ Len(data) >= db_ret.top_k) =>
        LET r == db_ret.results
            l == db_ret.labels
        IN  /\ ~db_ret.raised
            /\ Len(r) = db_ret.top_k
            /\ \A n \in 1..Len(r) :
                  /\ l[n] \in 0..(Len(data) - 1)
                  /\ r[n] = data[l[n] + 1]
                  /\ \A m \in 1..(n - 1) :
                        Nearer(QueryDist(l[m]), l[m], QueryDist(l[n]), l[n])
                  /\ \A i \in (0..(Len(data) - 1)) \ {l[m] : m \in 1..Len(r)} :
                        Nearer(QueryDist(l[n]), l[n], QueryDist(i), i)

\* C6's case: three records, top_k = 2, the second result farther than the
\* first and as far as the record left out, which was inserted later.
C6_Witness ==
    /\ db_ret.op = "search"
    /\ Len(index) = 3 /\ Len(data) = 3
    /\ db_ret.top_k = 2
    /\ Len(db_ret.results) = 2
    /\ QueryDist(db_ret.labels[1]) < QueryDist(db_ret.labels[2])
    /\ \E i \in 0..2 :
          /\ i > db_ret.labels[2]
          /\ QueryDist(i) = QueryDist(db_ret.labels[2])

\* C7: add_data with len(texts) # len(summaries) raises and leaves the index
\* and the record list as they were.
C7_ArityMismatchRejected ==
    [][(/\ db_ret'.op = "add_data"
        /\ db_ret'.n_texts # db_ret'.n_summaries) =>
           (db_ret'.raised /\ index' = index /\ data' = data)]_vars

-----------------------------------------------------------------------------
(* chunk_text. *)

\* C8: no chunk is the empty string, the final one included.
C8_NoEmptyChunk == \A n \in 1..Len(chunks) : chunks[n] # <<>>

\* The trimmed text of each window cut so far, and those that are not empty.
Trimmed == [n \in 1..Len(slices) |-> strip(Slice(text, slices[n][1], slices[n][2]))]
NonEmpty(ss) == SelectSeq(ss, LAMBDA c : c # <<>>)

\* C9: the windows are consecutive non-empty slices from offset 0, reaching
\* len(text) on return; the non-empty trimmed slices are the non-empty
\* chunks, in order; a text with a non-whitespace character yields a chunk.
C9_SlicesPartitionText ==
    /\ \A n \in 1..Len(slices) :
          /\ slices[n][1] = (IF n = 1 THEN 0 ELSE slices[n - 1][2])
          /\ slices[n][1] < slices[n][2]
          /\ slices[n][2] <= Len(text)
    /\ pc = "loop" => start = (IF slices = <<>> THEN 0 ELSE slices[Len(slices)][2])
    /\ pc = "done" =>
          (IF text = <<>> THEN slices = <<>> ELSE slices[Len(slices)][2] = Len(text))
    /\ NonEmpty(chunks) = NonEmpty(Trimmed)
    /\ (pc = "done" /\ \E n \in 1..Len(text) : text[n] \notin Whitespace) =>
          NonEmpty(chunks) # <<>>

\* C9's case: a text cut into three windows, one at a boundary before the
\* raw chunk_size offset, with whitespace trimmed from a slice.
C9_Witness ==
    /\ pc = "done"
    /\ Len(slices) = 3
    /\ Len(chunks) = 3
    /\ \E n \in 1..2 : slices[n][2] - slices[n][1] < chunk_size
    /\ \E n \in 1..3 : Len(chunks[n]) < slices[n][2] - slices[n][1]

\* C10: the window start strictly increases from one iteration of the loop
\* to the next, and the loop runs at most len(text) times.
C10_StartIncreases ==
    /\ [][(pc = "loop" /\ pc' = "loop") => start' > start]_vars
    /\ [](chunk_count <= Len(text))

\* C10's case: a text of whitespace only, returned after len(text) iterations.
C10_Witness ==
    /\ pc = "done"
    /\ Len(text) >= 3
    /\ \A n \in 1..Len(text) : text[n] \in Whitespace
    /\ chunk_count = Len(text)

\* C11: chunk_text raises no exception for any text and any chunk_size, and
\* returns the empty sequence when the text is empty.
C11_NeverRaises ==
    /\ pc # "raised"
    /\ (pc = "done" /\ text = <<>>) => chunks = <<>>

-----------------------------------------------------------------------------
(* The Model. *)

Extracted == ret.op = "extract_content_from_url"
ExtractFailed == Extracted /\ ~ret.escaped /\ ret.value[1] = FALSE
Generated == ret.op = "generate_response"
Imported == ret.op = "import_state"

\* C12: extract_content_from_url lets no exception escape; when a step
\* fails (URL, rate limit, fetch, content validation, summarizer, embedding)
\* it returns (False, reason) with a non-empty reason, and total_requests and
\* failed_requests have each grown by one, successful_requests by none.
C12_FailureReturnsFalseAndRecords ==
    Extracted =>
        /\ ~ret.escaped
        /\ ret.failure # "none" =>
              /\ ret.value[1] = FALSE
              /\ ret.value[2] # <<>>
              /\ metrics.total_requests = ret.pre.metrics.total_requests + 1
              /\ FailedRequests(metrics) = FailedRequests(ret.pre.metrics) + 1
              /\ metrics.successful_requests = ret.pre.metrics.successful_requests

\* C12's case: a page rejected by the validator, in a session that has
\* already recorded a failed request.
C12_Witness ==
    /\ ExtractFailed
    /\ ret.failure = "validate_content"
    /\ FailedRequests(ret.pre.metrics) = 1
    /\ FailedRequests(metrics) = 2

\* C13: when extract_content_from_url returns (False, _), the context is
\* what it was before the call, whatever step failed.
C13_FailedExtractKeepsContext == ExtractFailed => context = ret.pre.context

\* C14: when extract_content_from_url returns (False, _), the vector index
\* and the record list are what they were before the call.
C14_FailedExtractKeepsIndex ==
    ExtractFailed => (index = ret.pre.index /\ data = ret.pre.data)

\* C14's case: the summarizer fails on the second chunk of a page, the first
\* being summarized, in a session that holds records already.
C14_Witness ==
    /\ ExtractFailed
    /\ ret.failure = "summarize"
    /\ ret.summarized = 1
    /\ ret.pre.data # <<>>

\* C15: generate_response lets no exception escape and returns a string:
\* the rate-limit message when the limiter denies, a formatted error string
\* when retrieval or the completion provider fails, in every session state.
C15_GenerateReturnsString ==
    Generated =>
        /\ ~ret.escaped
        /\ ret.value # <<>>
        /\ \A n \in 1..Len(ret.value) : ret.value[n] \in STRING
        /\ ~ret.admitted => ret.value = RateLimitMessage
        /\ (ret.admitted /\ ret.failure # "none") =>
              (ret.value[1] = "API request failed: " /\ Len(ret.value) > 1)

\* C15's case: a query on the empty index of a new session, where retrieval
\* fails.
C15_Witness ==
    /\ Generated
    /\ ret.admitted
    /\ ret.failure = "search"
    /\ ret.pre.index = <<>>
    /\ ret.value = <<"API request failed: ", "list index out of range">>

\* C16: every call of extract_content_from_url and of generate_response,
\* whatever its outcome, increases total_requests by exactly one.
C16_EveryCallCounted ==
    (Extracted \/ Generated) =>
        metrics.total_requests = ret.pre.metrics.total_requests + 1

C18_IncompleteImportRejected ==
    (Imported /\ ~(SnapshotKeys \subseteq DOMAIN ret.state)) =>
        /\ ret.escaped
        /\ metrics = ret.pre.metrics
        /\ index = ret.pre.index
        /\ data = ret.pre.data
        /\ context = ret.pre.context

-----------------------------------------------------------------------------
(* The round trip of the vector database. *)

\* C20: for an index reached by add_data calls, from_dict(to_dict()) yields an
\* index whose search returns the same records in the same order as before,
\* for every query and every top_k.
C20_RoundTripKeepsSearch ==
    db_ret.op = "round_trip" =>
        \A q \in Texts, k \in 1..MaxTopK :
            /\ search(q, k).raised = db_ret.before[q][k].raised
            /\ search(q, k).results = db_ret.before[q][k].results

-----------------------------------------------------------------------------
(* The metrics: serialization and the running counters. *)

\* total_tokens_used as a reader sees it: 0 while the attribute is not there.
TokensUsed(m) == IF m.total_tokens_used = NoAttr THEN 0 ELSE m.total_tokens_used

\* C21: Metrics.from_dict(m.to_dict()) has every counter of m:
\* total_requests, successful_requests, failed_requests, total_tokens_used
\* and average_response_time.
C21_RoundTripKeepsCounters ==
    m_ret = "from_dict" /\ m_hist.exported # <<>> =>
        LET m == m_hist.exported[1]
        IN  /\ metrics.total_requests = m.total_requests
            /\ metrics.successful_requests = m.successful_requests
            /\ FailedRequests(metrics) = FailedRequests(m)
            /\ TokensUsed(metrics) = TokensUsed(m)
            /\ metrics.average_response_time = m.average_response_time

\* C22: while the clock does not go back, no to_dict reports a smaller
\* uptime than the to_dict before it, whether or not the object was restored
\* from that dictionary in between; the restored object starts from the
\* uptime of the dictionary, accruing from the moment of the restore.
C22_UptimeNeverDecreases ==
    [][/\ now' >= now
       /\ snapshot # <<>> /\ m_ret' = "to_dict" =>
              snapshot'[1].uptime >= snapshot[1].uptime
       /\ snapshot # <<>> /\ m_ret' = "from_dict" =>
              /\ metrics'.uptime = snapshot[1].uptime
              /\ metrics'.start_time = now']_vars

\* A restored object, with an uptime to start from, has reported a larger
\* uptime later.
C22_Witness ==
    /\ m_ret = "to_dict"
    /\ ~m_hist.fresh
    /\ metrics.uptime > 0
    /\ snapshot[1].uptime > metrics.uptime

\* C30: from fresh metrics, the record_request calls leave total_requests
\* their number, successful_requests and failed_requests the number of the
\* successful and of the failed ones, total_tokens_used the sum of their
\* tokens, and average_response_time times total_requests the sum of their
\* response times.
C30_RecordRequestCounts ==
    m_hist.fresh =>
        /\ metrics.total_requests = m_hist.n
        /\ metrics.successful_requests = m_hist.ok_n
        /\ FailedRequests(metrics) = m_hist.n - m_hist.ok_n
        /\ TokensUsed(metrics) = m_hist.tokens_sum
        /\ metrics.average_response_time[1] * m_hist.n =
               m_hist.rt_sum * metrics.average_response_time[2]

\* Three requests, one of them successful, with a mean that is no integer.
C30_Witness ==
    /\ m_ret = "record_request"
    /\ m_hist.fresh
    /\ m_hist.n = 3 /\ m_hist.ok_n = 1
    /\ m_hist.rt_sum = 4 /\ m_hist.tokens_sum = 2

-----------------------------------------------------------------------------
(* The rate limiter: what a call does to the queue. *)

\* The timestamps of q that are not older than 60 seconds at t.
Within(q, t) == SelectSeq(q, LAMBDA x : x >= t - Window)

\* C27: a can_proceed call that returns false leaves in the queue exactly the
\* timestamps not older than 60 seconds, in their order; a call that returns
\* true leaves those followed by one more, the current time.
C27_OnlyAdmittedAppends ==
    [][calls' # calls =>
          LET c == calls'[Len(calls')]
          IN  /\ c.t = now'
              /\ ~c.ok => requests' = Within(requests, c.t)
              /\ c.ok => requests' = Append(Within(requests, c.t), c.t)]_vars

\* A call was denied, after an admitted call whose timestamp has left the queue.
C27_Witness ==
    /\ calls # <<>>
    /\ ~calls[Len(calls)].ok
    /\ \E k \in 1..Len(calls) :
          /\ calls[k].ok
          /\ \A n \in 1..Len(requests) : requests[n] # calls[k].t

-----------------------------------------------------------------------------
(* chunk_text: the boundary a window is cut at. *)

\* The cut of the window chunk = text[s:s + size] at the first boundary, in
\* the order fence, blank line, sentence end, whose last occurrence lies
\* past 30% of the window; the raw offset when there is none.
PriorityCut(chunk, s, size) ==
    LET fence == rfind(chunk, Fence)
        break == rfind(chunk, BlankLine)
        period == rfind(chunk, SentenceEnd)
    IN  IF PastThreshold(fence, size) THEN s + fence
        ELSE IF PastThreshold(break, size) THEN s + break
        ELSE IF PastThreshold(period, size) THEN s + period + 1
        ELSE s + size

\* C28: every window that is not the final one (its end lies before the end
\* of the text) is cut at the first qualifying boundary in priority order:
\* a blank line before 30% does not keep a sentence end past 30% from being
\* the cut.
C28_CutAtFirstQualifyingBoundary ==
    \A n \in 1..Len(slices) :
        LET s == slices[n][1]
        IN  s + chunk_size < Len(text) =>
                slices[n][2] = PriorityCut(Slice(text, s, s + chunk_size),
                                           s, chunk_size)

-----------------------------------------------------------------------------
(* Model.clear and the records of the index. *)

Cleared == ret.op = "clear"

\* C23: Model.clear leaves the context the empty string and the cache empty,
\* and the vector index, its records, the metrics and the queue of the rate
\* limiter as they were; a clear that follows a clear changes nothing.
C23_ClearKeepsIndexAndMetrics ==
    Cleared =>
        /\ context = <<>> /\ cache = {}
        /\ index = ret.pre.index /\ data = ret.pre.data
        /\ metrics = ret.pre.metrics
        /\ requests = ret.pre.requests
        /\ ret.again => context = ret.pre.context /\ cache = ret.pre.cache

\* A clear of a session with a page as context, a key in the cache, records
\* in the index, a request counted and a timestamp in the queue.
C23_Witness ==
    /\ Cleared
    /\ ret.pre.context # <<>> /\ ret.pre.cache # {}
    /\ index # <<>> /\ data # <<>>
    /\ metrics.total_requests > 0
    /\ requests # <<>>

\* s is the beginning of t.
IsPrefix(s, t) == Len(s) <= Len(t) /\ SubSeq(t, 1, Len(s)) = s

\* C26: extract_content_from_url, generate_response and clear leave every
\* record that was stored where it was, with its text, its summary and its
\* vector: the records and the vectors from before the call are the
\* beginning of those after it, so that their number does not decrease.
C26_IndexAppendOnly ==
    (Extracted \/ Generated \/ Cleared) =>
        /\ IsPrefix(ret.pre.data, data)
        /\ IsPrefix(ret.pre.index, index)

\* An ingest added records to an index that held some.
C26_Witness ==
    /\ Extracted
    /\ ret.pre.data # <<>>
    /\ Len(data) > Len(ret.pre.data)
    /\ data[Len(data)] # data[1]

-----------------------------------------------------------------------------
(* generate_response: what the completion provider is given. *)

\* The first k of items, each but the first after a newline.
RECURSIVE Joined(_, _)
Joined(items, k) ==
    IF k = 0 THEN <<>>
    ELSE IF k = 1 THEN items[1]
    ELSE Joined(items, k - 1) \o <<"\n">> \o items[k]

\* C24: an admitted generate_response that reaches the completion provider
\* has searched the database for the query with top_k = 3, and gives the
\* provider two messages: a system message whose content is "Context: "
\* and then the summaries (use_summary) or the texts (otherwise) of the
\* records found, in the order found, joined by newlines; and a user
\* message, which alone carries the query, at the end of its content.
C24_ContextFromRetrieval ==
    (Generated /\ ret.completion_called) =>
        LET found == db_ret.results
            fields == [n \in 1..Len(found) |->
                         IF ret.use_summary THEN found[n].summary
                         ELSE found[n].text]
            system == ret.messages[1]
            user == ret.messages[2]
        IN  /\ ret.admitted
            /\ db_ret.op = "search" /\ ~db_ret.raised
            /\ db_ret.query = ret.query /\ db_ret.top_k = 3
            /\ Len(ret.messages) = 2
            /\ system.role = "system"
            /\ system.content = <<"Context: ">> \o Joined(fields, Len(fields))
            /\ rfind(system.content, ret.query) = -1
            /\ user.role = "user"
            /\ Len(user.content) > Len(ret.query)
            /\ SubSeq(user.content, Len(user.content) - Len(ret.query) + 1,
                      Len(user.content)) = ret.query

\* The provider was given the texts of three records, of which the first
\* found was stored after the second, and whose summaries are not their texts.
C24_Witness ==
    /\ Generated /\ ret.completion_called
    /\ ~ret.use_summary
    /\ Len(db_ret.results) = 3
    /\ db_ret.labels[1] > db_ret.labels[2]
    /\ \A n \in 1..3 : db_ret.results[n].summary # db_ret.results[n].text

-----------------------------------------------------------------------------
(* extract_content_from_url: the order of its steps. *)

\* C29: the steps of extract_content_from_url run in the order URL
\* validation, rate-limit check, fetch, content validation, summarizing of
\* the chunks, index add, each only if all before it were run: the fetcher
\* is called only for a valid URL that the limiter admitted, an invalid URL
\* leaves the queue of the limiter as it was, and add_data is called only
\* with a context that passed validation and with every chunk summarized.
C29_StepsInOrder ==
    Extracted =>
        LET order == <<"is_valid_url", "can_proceed", "fetch",
                       "validate_content", "summarize", "add_data">>
            called(s) == \E n \in 1..Len(ret.steps) : ret.steps[n] = s
        IN  /\ IsPrefix(ret.steps, order)
            /\ called("fetch") => ret.url_valid /\ ret.admitted
            /\ ~ret.url_valid =>
                  /\ ~called("can_proceed")
                  /\ requests = ret.pre.requests
            /\ ret.admitted =>
                  requests = Append(Within(ret.pre.requests, requests[Len(requests)]),
                                    requests[Len(requests)])
            /\ called("add_data") =>
                  /\ Len(context) = 1
                  /\ ValidationOf[context[1]].valid
                  /\ ret.summarized = Len(ChunksOf[context[1]])
            /\ ~called("add_data") => index = ret.pre.index /\ data = ret.pre.data

\* The summarizer failed on the second chunk of an admitted page: add_data
\* was not called.
C29_Witness ==
    /\ Extracted
    /\ ret.failure = "summarize" /\ ret.summarized = 1
    /\ Len(ret.steps) = 5
    /\ ret.pre.requests # <<>>

-----------------------------------------------------------------------------
(* The gate of the chat endpoint. *)

\* The last request reached the handler of the endpoint: token_required let
\* it through with a session and rate_limit, where there is one, admitted it.
Handled(endpoint) ==
    /\ api_ret.endpoint = endpoint
    /\ api_ret.status \notin {401, 429}

\* The flag of a user's session; a user without a session has none set.
Flag(sessions, u) == u \in DOMAIN sessions /\ sessions[u].url_processed

\* The requests that may set the flag: a process-url whose extraction
\* succeeded, a restore that rebuilt a context that is not empty, an import.
MaySetFlag(answer, model_ret, ctx) ==
    \/ /\ answer.endpoint = "process-url"
       /\ model_ret.op = "extract_content_from_url"
       /\ model_ret.failure = "none"
    \/ answer.endpoint = "chat/restore" /\ ctx # <<>>
    \/ answer.endpoint = "import" /\ answer.status = 200

\* C25: a chat request that reaches its handler while url_processed is
\* false is answered 400 "Please process a URL first" and generate_response
\* is not called, nor is it for any other chat request that finds the flag
\* false; the first request of a session finds the flag false, clear-all
\* and chat/clear leave it false, and a request leaves the flag true after
\* it found it false only if it is a process-url whose extraction
\* succeeded, a restore with a context that is not empty, or an import.
C25_ChatGatedByFlag ==
    [][\A u \in Users :
          /\ (Handled("chat")' /\ ~api_ret'.url_processed) =>
                /\ api_ret'.status = 400
                /\ api_ret'.message = "Please process a URL first"
                /\ ~api_ret'.called
                /\ UNCHANGED <<requests, calls, metrics, ret, hist>>
          /\ (api_ret'.endpoint = "chat" /\ ~api_ret'.url_processed) =>
                (~api_ret'.called /\ UNCHANGED <<ret, hist>>)
          /\ (u \notin DOMAIN user_sessions /\ u \in DOMAIN user_sessions') =>
                ~api_ret'.url_processed
          /\ (Handled("clear-all")' \/ Handled("chat/clear")') =>
                ~Flag(user_sessions', u)
          /\ (~Flag(user_sessions, u) /\ Flag(user_sessions', u)) =>
                MaySetFlag(api_ret', ret', context')
      ]_vars

\* A chat was refused in a session that had processed a URL and was then
\* cleared by clear-all.
C25_Witness ==
    /\ Handled("chat")
    /\ api_ret.status = 400
    /\ ~api_ret.called
    /\ hist.ingests >= 1
    /\ hist.clears >= 1
    /\ ret.op = "clear"
    /\ data # <<>>

-----------------------------------------------------------------------------
(* The tokens of an extraction. *)

\* C31: in a session without imports, an extract_content_from_url that
\* succeeds adds the number of words of the ingested text to the tokens the
\* metrics count, and one that returns a failure adds 0.
C31_TokensAreWordCount ==
    (Extracted /\ ~ret.escaped /\ hist.imports = 0) =>
        TokensUsed(metrics) - TokensUsed(ret.pre.metrics) =
            IF ret.value[1] THEN WordCount(ContextText(context)) ELSE 0

-----------------------------------------------------------------------------
(* The limiter of the API. *)

\* How often t stands in the list q.
Occurrences(q, t) == Cardinality({i \in 1..Len(q) : q[i] = t})

-----------------------------------------------------------------------------
(* The registrations. *)

\* The username is that of a row of the users table.
Registered(table, username) ==
    \E i \in 1..Len(table) : table[i].username = username

\* C33: a registration with all its fields adds a row only if no row has
\* its username, and is answered 400 "User already exists!" whenever a row
\* has it, whatever the password; no two rows of the table have the same
\* username.
C33_RegisterRejectsTaken ==
    [][/\ users' # users =>
             /\ ~Registered(users, api_ret'.username)
             /\ Registered(users', api_ret'.username)
       /\ (/\ api_ret'.endpoint = "register"
           /\ Registered(users, api_ret'.username)
           /\ api_ret'.message # "Username, password and email are required!") =>
             /\ api_ret'.status = 400
             /\ api_ret'.message = "User already exists!"
       /\ \A i, j \in 1..Len(users') :
             users'[i].username = users'[j].username => i = j
      ]_vars

-----------------------------------------------------------------------------
(* The validation of a page. *)

\* The text holds a script-tag marker; the length of the text between its
\* first and its last character that is not whitespace.
HasScriptTag(s) == \E n \in 1..Len(s) : s[n] = ScriptTag
Span(S) ==
    IF S = {} THEN 0
    ELSE (CHOOSE i \in S : \A j \in S : i >= j)
             - (CHOOSE i \in S : \A j \in S : i <= j) + 1
TrimmedLen(s) == Span(Inked(s))

\* C34: when extract_content_from_url comes to validate the page it
\* fetched, a page with a script-tag marker is rejected with "Contains
\* script tags", also when it is too short, a page without one whose
\* trimmed length is under 10 is rejected with "Content too short", and any
\* other page passes; after a rejection the index and the records are what
\* they were before the call.
C34_RejectedPagesNotIndexed ==
    (Extracted /\ Ran(ret.failure, "validate_content")) =>
        LET page == ContextText(context)
            reason == IF HasScriptTag(page) THEN "Contains script tags"
                      ELSE IF TrimmedLen(page) < 10 THEN "Content too short"
                      ELSE "Content passed validation"
        IN  IF reason # "Content passed validation"
            THEN /\ ret.failure = "validate_content"
                 /\ ~ret.escaped
                 /\ ret.value = <<FALSE, <<"Content extraction failed: ",
                                          "Content validation failed: ", reason>>>>
                 /\ index = ret.pre.index
                 /\ data = ret.pre.data
            ELSE ret.failure # "validate_content"

\* A short page with a script tag was rejected in a session that has
\* indexed a page.
C34_Witness ==
    /\ Extracted
    /\ ret.failure = "validate_content"
    /\ HasScriptTag(ContextText(context))
    /\ TrimmedLen(ContextText(context)) < 10
    /\ data # <<>>

\* C36: when two callers interleave can_proceed on one limiter, no span of 60
\* seconds holds more than requests_per_minute admitted calls.
C36_InterleavedCallsBounded ==
    \A k \in 1..Len(calls) :
        Cardinality(AdmittedIn(calls[k].t)) <= requests_per_minute
\* The results of the search just made whose label is one of the vectors
\* committed before the add_data in progress began.
CommittedResults(r, committed) ==
    {n \in 1..Len(r.labels) :
        0 <= r.labels[n] /\ r.labels[n] < committed /\ KeepsLabel(r.labels[n], data)}

\* C35: a search made while an add_data is in progress on a populated index,
\* every vector of which had its record when the add began, raises no error,
\* returns only records of the record list, and returns as many of the
\* records committed before the add as it would have returned had the add
\* not begun.
C35_SearchDuringAddStable ==
    [][(adding.pc = "append" /\ adding.vectors >= 1
        /\ adding.vectors = adding.committed
        /\ db_ret'.op = "search" /\ db_ret' # db_ret) =>
          /\ ~db_ret'.raised
          /\ \A n \in 1..Len(db_ret'.results) :
                \E i \in 1..Len(data) : data[i] = db_ret'.results[n]
          /\ Cardinality(CommittedResults(db_ret', adding.committed))
                = adding.before[db_ret'.query][db_ret'.top_k]]_vars
\* C37: after any sequence of add_data calls the index holds as many vectors
\* as the record list holds records, and the i-th vector is the embedding of
\* the text of the i-th record.
C37_VectorsMatchRecords ==
    /\ Len(index) = Len(data)
    /\ \A i \in 1..Len(data) : index[i] = emb[data[i].text]
\* What a user observes of their session, once they have one: its Model
\* (index, records, context, metrics, limiter queue, cache), its flag and its
\* metrics collector; and the request timestamps rate_limit keeps for them.
ModelOf(v, srv, prk, mdl) == IF v = srv THEN mdl ELSE prk[v]
Observed(v, srv, prk, mdl, sessions, stamps) ==
    <<IF v \in DOMAIN sessions
      THEN <<ModelOf(v, srv, prk, mdl), sessions[v]>> ELSE <<>>,
      stamps[v]>>

\* C38: a request creates a session for no one but its user, and the session
\* is new (the request finds the flag false and a Model as Model() makes it),
\* whatever other users did before; and no request of one user changes the
\* Model, the metrics, the flag or the rate-limit window of another.
C38_SessionsIsolated ==
    [][\A v \in LimitUsers :
          /\ (v \notin DOMAIN user_sessions /\ v \in DOMAIN user_sessions') =>
                /\ api_ret'.user = v /\ api_ret'.status # 401
                /\ ~api_ret'.url_processed
                /\ \E t \in 0..MaxNow : ServedModel = FreshModel(t)
          /\ (api_ret' = api_ret \/ api_ret'.user # v) =>
                Observed(v, serving', parked', ServedModel', user_sessions',
                         rate_limit_data')
                  = Observed(v, serving, parked, ServedModel, user_sessions,
                             rate_limit_data)
      ]_vars

\* Both users have a session; u's holds an index and a true flag, v's, which
\* answered the last request, an empty index and a false flag.
C38_Witness ==
    /\ DOMAIN user_sessions = LimitUsers
    /\ serving = "v" /\ api_ret.user = "v"
    /\ user_sessions["u"].url_processed /\ parked["u"].index # <<>>
    /\ ~user_sessions["v"].url_processed /\ index = <<>>
\* C39: a chat/restore that succeeds right after another that succeeded, the
\* chat history being the same, leaves the index and the record list as the
\* first left them.
C39_RestoreIdempotent ==
    [][(Handled("chat/restore") /\ api_ret.status = 200
        /\ Handled("chat/restore")' /\ api_ret'.status = 200
        /\ api_ret'.n = api_ret.n + 1 /\ chat_history' = chat_history) =>
          (index' = index /\ data' = data)]_vars
\* The request just answered is an import, answered 200, of the data the
\* last export returned, from a session that had processed a URL and whose
\* vector_database was not empty.
ImportedBackup(answer, model_ret) ==
    /\ answer.endpoint = "import" /\ answer.status = 200
    /\ backup # <<>>
    /\ backup[2]
    /\ backup[1]["vector_database"] # <<>>
    /\ model_ret.op = "import_state" /\ model_ret.state = backup[1]

\* C40: after an import, answered 200, of the data exported from a session
\* that had processed a URL (its vector_database not empty), the
\* url_processed flag of the session is
\* true, and a chat request that follows is not refused, also when the
\* session was cleared between the export and the import.
C40_ImportRestoresReadiness ==
    [][/\ (ImportedBackup(api_ret', ret') /\ api_ret'.n = api_ret.n + 1) =>
              Flag(user_sessions', serving)
       /\ (ImportedBackup(api_ret, ret) /\ Handled("chat")') =>
              api_ret'.message # "Please process a URL first"
      ]_vars
=============================================================================
